---- MODULE Spec2Model ----
(***************************************************************************)
(* Stream-multiplexing engine of the market-data gateway.                  *)
(*                                                                         *)
(* Two distributors are modelled:                                          *)
(*   - the unified gateway's MarketDataDistributor                         *)
(*       (qamdgateway/src/actors/md_distributor.rs) with its WebSocket     *)
(*       session (qamdgateway/src/ws_server.rs);                           *)
(*   - the QQ gateway's MarketDataDistributor                              *)
(*       (qamdgateway-qq/src/actors/md_distributor.rs).                    *)
(*                                                                         *)
(* The variable driver, fixed by Init, says which program runs:            *)
(*   "api"  the unified distributor driven through its message interface  *)
(*          (Register, Unregister, UpdateSubscription, AddSubscription,    *)
(*          RemoveSubscription, MarketDataUpdate), each client id being    *)
(*          registered once and unregistered once;                         *)
(*   "ws"   the unified distributor driven by WsSession actors through the *)
(*          distributor's mailbox;                                         *)
(*   "qq"   the QQ gateway's distributor;                                  *)
(*   "hb"   the heartbeat of one WebSocket session;                        *)
(*   "md"   the MDServer of qautlra-rs                                     *)
(*          (qautlra-rs/src/server/websocket/mdserver.rs);                 *)
(*   "adapter"  one MarketDataActor and the native library behind it      *)
(*          (qamdgateway/src/actors/md_actor.rs);                          *)
(*   "connector"  the CTP gateway's MarketDataConnector                    *)
(*          (qamdgateway-ctp/src/actors/md_connector.rs);                  *)
(*   "norm"  the instrument id an adapter hands to the native library      *)
(*          (subscribe_instruments, unsubscribe_instruments);              *)
(*   "json"  an MDSnapshot written to JSON and read back                   *)
(*          (qamd-rs/src/lib.rs, tests::test_serialization).               *)
(***************************************************************************)
EXTENDS Integers, Sequences, FiniteSets, TLC

\* ---------------------------------------------------------------- bounds
MaxSnapshots == 2
MailboxCapacity == 2
MaxPending == 1
\* the heartbeat is followed for this many seconds
MaxTime == 45
\* front disconnections of the adapter that are followed
MaxDisconnects == 2
\* GetSubscriptions messages one adapter holds unhandled
MaxQueries == 1
\* characters of an instrument id a client sends
MaxIdLen == 7

\* client ids (Uuid::new_v4 strings) and instrument ids
\* ws_server.rs of both gateways, in seconds
HEARTBEAT_INTERVAL == 10
CLIENT_TIMEOUT == 30
\* the same two of MDSession (qautlra-rs server)
MD_HEARTBEAT_INTERVAL == 5
MD_CLIENT_TIMEOUT == 10

Clients == {"c1", "c2"}
\* WebSocket connections to the MDServer of qautlra-rs, and the id a
\* session is constructed with
Connections == {"k1", "k2", "k3"}
InitialId == 0
Instruments == {"au2212", "rb2512"}
\* the brokers of the CTP gateway's configuration, one futures adapter each
Brokers == {"b1"}

\* MarketDataSource, in the selection order of find_actor_for_instrument
SourceOrder == <<"CTP", "QQ", "Sina">>
MarketDataSource == {"CTP", "QQ", "Sina"}
\* md_actor.rs declares MarketDataActor.source_type once per cargo feature, so
\* a build of the unified gateway enables exactly one source kind.  The
\* distributor treats the kinds alike but for the lookup order, so one build
\* is followed: the CTP one.
BuildFeatures == {"CTP"}

\* ------------------------------------------------------- map primitives
EmptyMap == [x \in {} |-> 0]
Put(f, k, v) == [x \in (DOMAIN f) \cup {k} |-> IF x = k THEN v ELSE f[x]]
Del(f, k) == [x \in (DOMAIN f) \ {k} |-> f[x]]

\* A Vec collected from a HashSet: the elements in some order.  The order of
\* the hash iteration is not observable across instruments or clients, one
\* fixed order stands for it.
RECURSIVE SetToSeq(_)
SetToSeq(S) ==
    IF S = {} THEN <<>>
    ELSE LET x == CHOOSE y \in S : TRUE IN <<x>> \o SetToSeq(S \ {x})

SeqToSet(s) == {s[k] : k \in DOMAIN s}

\* ----------------------------------------------------------------- state
VARIABLES
    driver,                 \* which program runs: "api", "ws", "qq", "hb",
                            \* "md" or "adapter"
    feature,                \* the source kind the unified gateway is built for
    subscribers,            \* client id -> Subscriber.instruments
    instrument_subscribers, \* instrument -> set of client ids
    market_data_cache,      \* instrument -> latest snapshot
    source_map,             \* instrument -> MarketDataSource
    md_actors,              \* source kinds with a registered adapter actor
    mailboxes,              \* client id -> pending MarketDataUpdateMessage
    client_state,           \* client id -> "new" | "started" | "stopped"
    arrivals,               \* number of snapshots that reached the distributor
    last_msg,               \* the message the distributor handled in the
                            \* step just taken (NoMsg after any other step)
    last_sent,              \* the try_send calls of that handler, in order
    last_upstream,          \* Subscribe/Unsubscribe it sent to adapters
    dist_mailbox,           \* messages of the sessions the distributor holds
    ws_subscriptions,       \* client id -> WsSession.subscriptions
    ws_last,                \* what the session handler did in the step just
                            \* taken (NoWs after any other step)
    clients,                \* QQ gateway: connected client ids
    subscriptions,          \* QQ gateway: instrument -> set of client ids
    qq_last,                \* QQ gateway: the message handled last, its sends
    now,                    \* heartbeat: seconds since the session started
    heartbeat,              \* WsSession.heartbeat, as seconds since the start
    next_tick,              \* when the run_interval closure runs next
    hb_state,               \* "running" | "stopped" (ctx.stop() by the closure)
    pings,                  \* pings sent by the closure
    last_frame,             \* when the last Ping, Pong or Text frame arrived
    gap_over,               \* some stretch without such a frame exceeded
                            \* CLIENT_TIMEOUT
    md_sessions,            \* MDServer.sessions: id -> connection
    md_subscriptions,       \* MDServer.subscriptions: instrument -> ids
    md_id,                  \* MDSession.id of each connection
    md_conn,                \* connection -> "new" | "connected" | "closed"
    md_last,                \* the message MDServer handled last
    md_api,                 \* adapter: MarketDataActor.md_api is Some
    is_connected,           \* adapter: MarketDataActor.is_connected
    is_logged_in,           \* adapter: MarketDataActor.is_logged_in
    subscribed_instruments, \* adapter: the set shared with the SPI
    front,                  \* native library: "idle" | "connecting" | "up"
    login_sent,             \* native library: a login request awaits its
                            \* response
    sub_requests,           \* native library: codes whose subscribe request
                            \* awaits its response
    unsub_requests,         \* native library: the same for unsubscribe
    desired,                \* the instruments the distributor has asked the
                            \* adapter to hold (Subscribe minus Unsubscribe)
    disconnects,            \* front disconnections so far
    quiet,                  \* no Subscribe or Unsubscribe message since the
                            \* last front disconnection
    actor_kind,             \* the adapter: "MarketDataActor" of the unified
                            \* gateway or "SinaMarketDataActor"
    actor_last,             \* what the adapter handled in the step just
                            \* taken and the native subscribe calls it made
    sync_mail,              \* adapter: the messages of the connector's
                            \* reconciliation that wait in its mailbox
    refused,                \* the desired instruments whose Subscribe the
                            \* adapter refused with "Not logged in" and has
                            \* not asked the native library for since
    qq_source,              \* connector: MarketDataConnector.qq_source is Some
    sina_source,            \* connector: MarketDataConnector.sina_source is Some
    cn_held,                \* the CTP gateway's distributor: client id -> the
                            \* instruments it holds
    cn_subs,                \* broker id -> the subscriptions its adapter
                            \* reports (GetSubscriptions)
    cn_queries,             \* broker id -> the GetSubscriptions messages its
                            \* adapter has not handled yet
    cn_last,                \* what the connector did in the step just taken
    nm_adapter,             \* normalisation: the adapter that is asked
    nm_id,                  \* the instrument id of the request, as characters
    nm_native,              \* the request and the id the native library is
                            \* called with, NoCall before the request
    nm_subscribed,          \* the adapter's subscribed_instruments: the ids
                            \* the native library has acknowledged
    nm_sync,                \* what the connector's reconciliation sent to
                            \* the adapter, NoCall before it ran
    js_snapshot,            \* serialisation: the MDSnapshot that is written
    js_json,                \* the JSON text of it, NoJson before to_string
    js_back                 \* the MDSnapshot read back, NoJson before from_str

dist_vars == <<subscribers, instrument_subscribers, market_data_cache,
               source_map, md_actors, mailboxes, last_msg,
               last_sent, last_upstream>>
ws_vars == <<dist_mailbox, ws_subscriptions, ws_last>>
qq_vars == <<clients, subscriptions, qq_last>>
hb_vars == <<now, heartbeat, next_tick, hb_state, pings, last_frame, gap_over>>
\* the state of the programs that stand apart from the distributors
md_vars == <<md_sessions, md_subscriptions, md_id, md_conn, md_last>>
actor_vars == <<md_api, is_connected, is_logged_in, subscribed_instruments,
                front, login_sent, sub_requests, unsub_requests, desired,
                disconnects, quiet, actor_kind, actor_last, sync_mail,
                refused>>
conn_vars == <<qq_source, sina_source, cn_held, cn_subs, cn_queries, cn_last>>
norm_vars == <<nm_adapter, nm_id, nm_native, nm_subscribed, nm_sync>>
json_vars == <<js_snapshot, js_json, js_back>>
ext_vars == <<hb_vars, md_vars, actor_vars, conn_vars, norm_vars, json_vars>>
gateway_vars == <<dist_vars, arrivals, client_state, ws_vars, qq_vars>>
\* what the steps of one stand-alone program leave alone
not_hb == <<driver, feature, gateway_vars, md_vars, actor_vars, conn_vars,
             norm_vars, json_vars>>
not_md == <<driver, feature, gateway_vars, hb_vars, actor_vars, conn_vars,
             norm_vars, json_vars>>
not_actor == <<driver, feature, gateway_vars, hb_vars, md_vars, conn_vars,
             norm_vars, json_vars>>
not_conn == <<driver, feature, gateway_vars, hb_vars, md_vars, actor_vars,
              norm_vars, json_vars>>
not_norm == <<driver, feature, gateway_vars, hb_vars, md_vars, actor_vars,
              conn_vars, json_vars>>
not_json == <<driver, feature, gateway_vars, hb_vars, md_vars, actor_vars,
              conn_vars, norm_vars>>
vars == <<driver, feature, ext_vars, gateway_vars>>

\* The distributor's fields together with the effects of the running handler.
Dist ==
    [subscribers |-> subscribers,
     instrument_subscribers |-> instrument_subscribers,
     market_data_cache |-> market_data_cache,
     source_map |-> source_map,
     md_actors |-> md_actors,
     mailboxes |-> mailboxes,
     closed |-> {c \in Clients : client_state[c] = "stopped"},
     sent |-> <<>>,
     upstream |-> <<>>]

\* a send that queues the message whatever the mailbox holds
try_send_Buffers(d, client_id, message) ==
    IF client_id \in d.closed
    THEN d.mailboxes
    ELSE [d.mailboxes EXCEPT ![client_id] = Append(@, message)]

\* Recipient::try_send: refused when the receiving actor is gone or its
\* mailbox is full, the message is then dropped.
try_send(d, client_id, message) ==
    IF client_id \in d.closed \/ Len(d.mailboxes[client_id]) >= MailboxCapacity
    THEN d.mailboxes
    ELSE [d.mailboxes EXCEPT ![client_id] = Append(@, message)]

\* a send that trusts the index entry and does not look the client up
send_market_data_to_client_NoLookup(d, client_id, instrument, data) ==
    LET message == [instrument |-> instrument, data |-> data]
    IN [d EXCEPT !.sent = Append(@, [client |-> client_id,
                                     instrument |-> instrument,
                                     data |-> data]),
                 !.mailboxes = try_send(d, client_id, message)]

send_market_data_to_client(d, client_id, instrument, data) ==
    IF client_id \in DOMAIN d.subscribers
       /\ instrument \in d.subscribers[client_id]
    THEN LET message == [instrument |-> instrument, data |-> data]
         IN [d EXCEPT !.sent = Append(@, [client |-> client_id,
                                          instrument |-> instrument,
                                          data |-> data]),
                      !.mailboxes = try_send(d, client_id, message)]
    ELSE d

RECURSIVE add_insert_loop(_, _, _, _)
add_insert_loop(d, client_id, instruments, k) ==
    IF k > Len(instruments) THEN d
    ELSE LET instrument == instruments[k]
             old == IF instrument \in DOMAIN d.instrument_subscribers
                    THEN d.instrument_subscribers[instrument] ELSE {}
             d1 == [d EXCEPT
                      !.subscribers[client_id] = @ \cup {instrument},
                      !.instrument_subscribers =
                          Put(@, instrument, old \cup {client_id})]
         IN add_insert_loop(d1, client_id, instruments, k + 1)

RECURSIVE send_cached_loop(_, _, _, _)
send_cached_loop(d, client_id, instruments_with_data, k) ==
    IF k > Len(instruments_with_data) THEN d
    ELSE send_cached_loop(
             send_market_data_to_client(d, client_id,
                                        instruments_with_data[k][1],
                                        instruments_with_data[k][2]),
             client_id, instruments_with_data, k + 1)

\* instruments_with_data of add_subscription: filled only for a known client
WithData(d, client_id, instruments) ==
    IF client_id \in DOMAIN d.subscribers
    THEN LET cached == SelectSeq(instruments,
                           LAMBDA i : i \in DOMAIN d.market_data_cache)
         IN [k \in 1..Len(cached) |->
                <<cached[k], d.market_data_cache[cached[k]]>>]
    ELSE <<>>

\* add_subscription that forgets to replay the cached snapshots
add_subscription_NoReplay(d, client_id, instruments) ==
    IF client_id \in DOMAIN d.subscribers
    THEN add_insert_loop(d, client_id, instruments, 1)
    ELSE d

add_subscription(d, client_id, instruments) ==
    LET instruments_with_data == WithData(d, client_id, instruments)
        d1 == IF client_id \in DOMAIN d.subscribers
              THEN add_insert_loop(d, client_id, instruments, 1)
              ELSE d
    IN send_cached_loop(d1, client_id, instruments_with_data, 1)

\* Unsubscribe to every actor of the instrument's recorded source
unsubscribe_source(d, instrument) ==
    IF instrument \in DOMAIN d.source_map
       /\ d.source_map[instrument] \in d.md_actors
    THEN [d EXCEPT !.upstream = Append(@, [op |-> "Unsubscribe",
                                           source |-> d.source_map[instrument],
                                           instrument |-> instrument])]
    ELSE d

\* remove_one that leaves the emptied set in the index
remove_one_KeepEmpty(d, client_id, instrument) ==
    LET d1 == [d EXCEPT !.subscribers[client_id] = @ \ {instrument}]
    IN IF instrument \in DOMAIN d1.instrument_subscribers
       THEN [d1 EXCEPT !.instrument_subscribers[instrument] = @ \ {client_id}]
       ELSE d1

remove_one(d, client_id, instrument) ==
    LET d1 == [d EXCEPT !.subscribers[client_id] = @ \ {instrument}]
    IN IF instrument \in DOMAIN d1.instrument_subscribers
       THEN LET left == d1.instrument_subscribers[instrument] \ {client_id}
            IN IF left = {}
               THEN unsubscribe_source(
                        [d1 EXCEPT !.instrument_subscribers =
                                       Del(@, instrument)],
                        instrument)
               ELSE [d1 EXCEPT !.instrument_subscribers[instrument] = left]
       ELSE d1

RECURSIVE remove_loop(_, _, _, _)
remove_loop(d, client_id, instruments, k) ==
    IF k > Len(instruments) THEN d
    ELSE remove_loop(remove_one(d, client_id, instruments[k]),
                     client_id, instruments, k + 1)

remove_subscription(d, client_id, instruments) ==
    IF client_id \in DOMAIN d.subscribers
    THEN remove_loop(d, client_id, instruments, 1)
    ELSE d

RECURSIVE broadcast_loop(_, _, _, _)
broadcast_loop(d, client_ids, data, k) ==
    IF k > Len(client_ids) THEN d
    ELSE broadcast_loop(
             send_market_data_to_client(d, client_ids[k], data.instrument_id,
                                        data),
             client_ids, data, k + 1)

broadcast_market_data(d, data) ==
    IF data.instrument_id \in DOMAIN d.instrument_subscribers
    THEN broadcast_loop(d,
             SetToSeq(d.instrument_subscribers[data.instrument_id]), data, 1)
    ELSE d

\* The source kind whose first actor is returned, "None" when there is none.
RECURSIVE first_actor(_, _)
first_actor(d, k) ==
    IF k > Len(SourceOrder) THEN "None"
    ELSE IF SourceOrder[k] \in d.md_actors THEN SourceOrder[k]
    ELSE first_actor(d, k + 1)

find_actor_for_instrument(d, instrument) ==
    IF instrument \in DOMAIN d.source_map
       /\ d.source_map[instrument] \in d.md_actors
    THEN d.source_map[instrument]
    ELSE first_actor(d, 1)

\* "for instrument in instruments": record the source, send Subscribe
RECURSIVE subscribe_loop(_, _, _)
subscribe_loop(d, instruments, k) ==
    IF k > Len(instruments) THEN d
    ELSE LET instrument == instruments[k]
             source == find_actor_for_instrument(d, instrument)
             d1 == IF source # "None"
                   THEN [d EXCEPT
                           !.source_map = Put(@, instrument, source),
                           !.upstream = Append(@, [op |-> "Subscribe",
                                                   source |-> source,
                                                   instrument |-> instrument])]
                   ELSE d
         IN subscribe_loop(d1, instruments, k + 1)

\* ------------------------------------------------ distributor handlers
\* the cache written with entry().or_insert(): the first snapshot stays
HandleMarketDataUpdate_KeepFirst(d, data, source) ==
    broadcast_market_data(
        [d EXCEPT !.market_data_cache =
                      IF data.instrument_id \in DOMAIN @ THEN @
                      ELSE Put(@, data.instrument_id, data),
                  !.source_map = Put(@, data.instrument_id, source)],
        data)

\* the handler without the source bookkeeping
HandleMarketDataUpdate_NoSource(d, data, source) ==
    broadcast_market_data(
        [d EXCEPT !.market_data_cache = Put(@, data.instrument_id, data)],
        data)

HandleMarketDataUpdate(d, data, source) ==
    broadcast_market_data(
        [d EXCEPT !.market_data_cache = Put(@, data.instrument_id, data),
                  !.source_map = Put(@, data.instrument_id, source)],
        data)

HandleRegisterDataReceiver(d, client_id, instruments) ==
    LET d1 == [d EXCEPT !.subscribers = Put(@, client_id, {})]
    IN IF instruments # <<>>
       THEN subscribe_loop(add_subscription(d1, client_id, instruments),
                           instruments, 1)
       ELSE d1

HandleUnregisterDataReceiver(d, client_id) ==
    IF client_id \in DOMAIN d.subscribers
    THEN LET instruments == SetToSeq(d.subscribers[client_id])
             d1 == [d EXCEPT !.subscribers = Del(@, client_id)]
         IN IF instruments # <<>>
            THEN remove_subscription(d1, client_id, instruments)
            ELSE d1
    ELSE d

\* UpdateSubscription that adds the new instruments and removes none
HandleUpdateSubscription_AddOnly(d, client_id, instruments) ==
    IF client_id \in DOMAIN d.subscribers
    THEN LET to_add == SetToSeq(SeqToSet(instruments)
                                \ d.subscribers[client_id])
         IN IF to_add # <<>>
            THEN subscribe_loop(add_subscription(d, client_id, to_add),
                                to_add, 1)
            ELSE d
    ELSE d

HandleUpdateSubscription(d, client_id, instruments) ==
    IF client_id \in DOMAIN d.subscribers
    THEN LET current_instruments == d.subscribers[client_id]
             new_instruments == SeqToSet(instruments)
             to_add == SetToSeq(new_instruments \ current_instruments)
             to_remove == SetToSeq(current_instruments \ new_instruments)
             d1 == IF to_add # <<>>
                   THEN subscribe_loop(
                            add_subscription(d, client_id, to_add), to_add, 1)
                   ELSE d
         IN IF to_remove # <<>>
            THEN remove_subscription(d1, client_id, to_remove)
            ELSE d1
    ELSE d

HandleAddSubscription(d, client_id, instrument) ==
    add_subscription(d, client_id, <<instrument>>)

HandleRemoveSubscription(d, client_id, instrument) ==
    remove_subscription(d, client_id, <<instrument>>)

HandleQuerySubscription(d, client_id) ==
    IF client_id \in DOMAIN d.subscribers THEN d.subscribers[client_id] ELSE {}

HandleGetAllSubscriptions(d) == DOMAIN d.instrument_subscribers

\* The handler's result becomes the distributor's state.
Commit(d, msg) ==
    /\ subscribers' = d.subscribers
    /\ instrument_subscribers' = d.instrument_subscribers
    /\ market_data_cache' = d.market_data_cache
    /\ source_map' = d.source_map
    /\ md_actors' = d.md_actors
    /\ mailboxes' = d.mailboxes
    /\ last_sent' = d.sent
    /\ last_upstream' = d.upstream
    /\ last_msg' = msg

\* What the handled message found: the instruments its client held before
\* the handler ran (none for an unknown client).
Before(c) == IF c \in DOMAIN subscribers THEN subscribers[c] ELSE {}

NoMsg == [type |-> "None"]
NoWs == [op |-> "None"]

\* a step that is not a distributor handler
NoDistStep ==
    /\ last_msg' = NoMsg
    /\ last_sent' = <<>>
    /\ last_upstream' = <<>>

DistFields == <<subscribers, instrument_subscribers, market_data_cache,
                source_map, md_actors>>

\* ------------------------------------------------ instrument ids
\* An instrument id is a string, here the sequence of its characters: a
\* letter, a digit and the separator.
Chars == {"a", "1", "."}
InstrumentIds == UNION {[1..n -> Chars] : n \in 0..MaxIdLen}

\* the adapters: the futures one of the CTP gateway, the unified gateway's
\* one and the equity one of the Sina gateway
AdapterKinds == {"CTP", "Unified", "Sina"}

NoCall == [op |-> "None"]

\* the width of format!("{:0>6}", instrument_code)
CodeWidth == 6

Dots(s) == {k \in DOMAIN s : s[k] = "."}

Max(S) == CHOOSE k \in S : \A j \in S : j <= k

\* s.split('.').last().unwrap_or(s): what follows the last separator
split_last(s) ==
    IF Dots(s) = {} THEN s ELSE SubSeq(s, Max(Dots(s)) + 1, Len(s))

\* instrument_code.chars().all(char::is_numeric)
all_numeric(s) == \A k \in DOMAIN s : s[k] \in {"0", "1"}

\* format!("{:0>6}", instrument_code): zeros on the left up to the width
pad_left(s) ==
    [k \in 1..(IF Len(s) < CodeWidth THEN CodeWidth ELSE Len(s)) |->
        IF k <= CodeWidth - Len(s) THEN "0"
        ELSE s[k - (IF Len(s) < CodeWidth THEN CodeWidth - Len(s) ELSE 0)]]

\* the code an adapter builds the CString of in subscribe_instruments
native_code(adapter, s) ==
    LET instrument_code == split_last(s)
    IN  IF adapter = "Sina" /\ all_numeric(instrument_code)
           /\ Len(instrument_code) <= CodeWidth
        THEN pad_left(instrument_code)
        ELSE instrument_code

\* the code an adapter builds the CString of in unsubscribe_instruments:
\* the futures adapter of the CTP gateway takes the id as it came
\* (CString::new(instr.clone())), the other two repeat the closure of
\* subscribe_instruments
unsubscribe_code(adapter, s) ==
    IF adapter = "CTP" THEN s ELSE native_code(adapter, s)

\* ------------------------------------------------ snapshots and JSON
\* An MDSnapshot with one field of each kind: a string, a number, a level
\* that may be missing (Option), three tri-valued fields (OptionalF64) and
\* the timestamp.
Prices == {0, 1}
Value(v) == [variant |-> "Value", v |-> v]
String(t) == [variant |-> "String", s |-> t]
Null == [variant |-> "Null"]
OptionalF64 == {Value(v) : v \in Prices} \cup {String("-"), Null}
Some(v) == [option |-> "Some", v |-> v]
None == [option |-> "None"]

Snapshots ==
    [instrument_id : {"SSE_688286"},
     last_price : Prices,
     ask_price2 : {None} \cup {Some(v) : v \in Prices},
     open_interest : OptionalF64,
     settlement : OptionalF64,
     iopv : OptionalF64,
     datetime : {[secs |-> 0]}]

NoJson == [json |-> "None"]

\* JSON values
JNumber(v) == [json |-> "number", v |-> v]
JString(t) == [json |-> "string", s |-> t]
JNull == [json |-> "null"]

\* Serialize for OptionalF64: a raw number, the string, or null
to_json_OptionalF64(x) ==
    IF x.variant = "Value" THEN JNumber(x.v)
    ELSE IF x.variant = "String" THEN JString(x.s)
    ELSE JNull

\* Deserialize for OptionalF64: a number, a string, or nothing (null or no
\* such key)
from_json_OptionalF64(object, key) ==
    IF key \notin DOMAIN object THEN Null
    ELSE IF object[key].json = "number" THEN Value(object[key].v)
    ELSE IF object[key].json = "string" THEN String(object[key].s)
    ELSE Null

\* DateTime<Utc> as an RFC-3339 string and back
to_rfc3339(t) == <<"1970-01-01T00:00:0", t.secs, "Z">>
parse_from_rfc3339(text) == [secs |-> text[2]]

\* serde_json::to_string(&snapshot): the object with its keys; a missing
\* level, and a tri-valued field without value, is written as null or left
\* out (omitted says which of the keys are left out)
to_string(snapshot, omitted) ==
    LET object ==
          [instrument_id |-> JString(snapshot.instrument_id),
           last_price |-> JNumber(snapshot.last_price),
           ask_price2 |-> IF snapshot.ask_price2 = None THEN JNull
                          ELSE JNumber(snapshot.ask_price2.v),
           open_interest |-> to_json_OptionalF64(snapshot.open_interest),
           settlement |-> to_json_OptionalF64(snapshot.settlement),
           iopv |-> to_json_OptionalF64(snapshot.iopv),
           datetime |-> JString(to_rfc3339(snapshot.datetime))]
    IN  [k \in (DOMAIN object) \ omitted |-> object[k]]

\* the keys of the fields that may be without value
OptionalKeys == {"ask_price2", "open_interest", "settlement", "iopv"}

\* the keys to_string may leave out: those whose value is null
Omittable(snapshot) ==
    LET object == to_string(snapshot, {})
    IN  {k \in OptionalKeys : object[k] = JNull}

\* serde_json::from_str::<MDSnapshot>(&json)
from_str_MDSnapshot(object) ==
    [instrument_id |-> object["instrument_id"].s,
     last_price |-> object["last_price"].v,
     ask_price2 |-> IF "ask_price2" \in DOMAIN object
                       /\ object["ask_price2"].json = "number"
                    THEN Some(object["ask_price2"].v) ELSE None,
     open_interest |-> from_json_OptionalF64(object, "open_interest"),
     settlement |-> from_json_OptionalF64(object, "settlement"),
     iopv |-> from_json_OptionalF64(object, "iopv"),
     datetime |-> parse_from_rfc3339(object["datetime"].s)]

\* the adapters whose heartbeat is followed
ActorKinds == {"MarketDataActor", "SinaMarketDataActor"}

\* Instrument lists without repetition, as a session or caller builds them
InstrumentLists == {SetToSeq(S) : S \in SUBSET Instruments}

\* The records of the handler that ran last (last_msg, last_sent,
\* last_upstream, ws_last, qq_last) are held for one state: the next step
\* is the handler's return, which drops them, and an actor takes its next
\* message only when no record is held.
Idle == last_msg = NoMsg /\ ws_last = NoWs /\ qq_last = NoMsg

Return ==
    /\ ~Idle
    /\ NoDistStep
    /\ ws_last' = NoWs
    /\ qq_last' = NoMsg
    /\ UNCHANGED <<driver, feature, ext_vars, DistFields, mailboxes, arrivals,
                   client_state, dist_mailbox, ws_subscriptions, clients,
                   subscriptions>>

\* ----------------------------------------------------------------- Init
Init ==
    /\ driver \in {"api", "ws", "qq", "hb", "md", "adapter", "connector",
                   "norm", "json", "session"}
    /\ feature \in IF driver \in {"api", "ws"} THEN BuildFeatures ELSE {"QQ"}
    /\ subscribers = EmptyMap
    /\ instrument_subscribers = EmptyMap
    /\ market_data_cache = EmptyMap
    /\ source_map = EmptyMap
    /\ md_actors = {}
    /\ mailboxes = [c \in Clients |-> <<>>]
    /\ client_state = [c \in Clients |-> "new"]
    /\ arrivals = 0
    /\ last_msg = NoMsg
    /\ last_sent = <<>>
    /\ last_upstream = <<>>
    /\ dist_mailbox = <<>>
    /\ ws_subscriptions = [c \in Clients |-> {}]
    /\ ws_last = NoWs
    /\ clients = {}
    /\ subscriptions = EmptyMap
    /\ qq_last = NoMsg
    /\ now = 0
    /\ heartbeat = 0
    /\ next_tick = IF driver = "session" THEN MD_HEARTBEAT_INTERVAL
                   ELSE HEARTBEAT_INTERVAL
    /\ hb_state = "running"
    /\ pings = 0
    /\ last_frame = 0
    /\ gap_over = FALSE
    /\ md_sessions = EmptyMap
    /\ md_subscriptions = EmptyMap
    /\ md_id = [k \in Connections |-> InitialId]
    /\ md_conn = [k \in Connections |-> "new"]
    /\ md_last = NoMsg
    /\ md_api = FALSE
    /\ is_connected = FALSE
    /\ is_logged_in = FALSE
    /\ subscribed_instruments = {}
    /\ front = "idle"
    /\ login_sent = FALSE
    /\ sub_requests = {}
    /\ unsub_requests = {}
    /\ desired = {}
    /\ disconnects = 0
    /\ quiet = TRUE
    /\ actor_kind \in IF driver = "adapter" THEN ActorKinds
                      ELSE {"MarketDataActor"}
    /\ actor_last = [op |-> "None", calls |-> <<>>, thread |-> "actor"]
    /\ sync_mail = <<>>
    /\ refused = {}
    /\ qq_source = FALSE
    /\ sina_source = FALSE
    /\ cn_held = [c \in Clients |-> {}]
    /\ cn_subs = [b \in Brokers |-> {}]
    /\ cn_queries = [b \in Brokers |-> <<>>]
    /\ cn_last = [op |-> "None"]
    /\ nm_adapter \in IF driver = "norm" THEN AdapterKinds ELSE {"CTP"}
    /\ nm_id \in IF driver = "norm" THEN InstrumentIds ELSE {<<>>}
    /\ nm_native = NoCall
    /\ nm_subscribed = {}
    /\ nm_sync = NoCall
    /\ js_snapshot \in IF driver = "json" THEN Snapshots ELSE {NoJson}
    /\ js_json = NoJson
    /\ js_back = NoJson

\* ------------------------------------------- the distributor, any driver
\* Handler<RegisterMdActor>: an adapter of one source kind is recorded.
RegisterMdActor(source) ==
    /\ driver \in {"api", "ws"}
    /\ Idle
    /\ source = feature
    /\ source \notin md_actors
    /\ Commit([Dist EXCEPT !.md_actors = @ \cup {source}],
              [type |-> "RegisterMdActor", source |-> source])
    /\ UNCHANGED <<driver, feature, ext_vars, arrivals, client_state, ws_vars, qq_vars>>

\* Handler<MarketDataUpdate>: a registered adapter delivers a snapshot.
MarketDataUpdate(instrument, source) ==
    /\ driver \in {"api", "ws"}
    /\ Idle
    /\ source \in md_actors
    /\ arrivals < MaxSnapshots
    /\ LET data == [instrument_id |-> instrument, seq |-> arrivals + 1]
       IN Commit(HandleMarketDataUpdate(Dist, data, source),
                 [type |-> "MarketDataUpdate", data |-> data,
                  source |-> source])
    /\ arrivals' = arrivals + 1
    /\ ws_last' = NoWs
    /\ UNCHANGED <<driver, feature, ext_vars, client_state, dist_mailbox,
                   ws_subscriptions, qq_vars>>

\* ------------------------------------------------------ driver "api"
RegisterDataReceiver(c, instruments) ==
    /\ driver = "api"
    /\ Idle
    /\ client_state[c] = "new"
    /\ client_state' = [client_state EXCEPT ![c] = "started"]
    /\ Commit(HandleRegisterDataReceiver(Dist, c, instruments),
              [type |-> "Register", client_id |-> c,
               instruments |-> instruments, before |-> Before(c)])
    /\ UNCHANGED <<driver, feature, ext_vars, arrivals, ws_vars, qq_vars>>

UnregisterDataReceiver(c) ==
    /\ driver = "api"
    /\ Idle
    /\ client_state[c] = "started"
    /\ client_state' = [client_state EXCEPT ![c] = "stopped"]
    /\ Commit([HandleUnregisterDataReceiver(Dist, c) EXCEPT
                  !.mailboxes[c] = <<>>],
              [type |-> "Unregister", client_id |-> c, before |-> Before(c)])
    /\ UNCHANGED <<driver, feature, ext_vars, arrivals, ws_vars, qq_vars>>

UpdateSubscription(c, instruments) ==
    /\ driver = "api"
    /\ Idle
    /\ client_state[c] = "started"
    /\ Commit(HandleUpdateSubscription(Dist, c, instruments),
              [type |-> "UpdateSubscription", client_id |-> c,
               instruments |-> instruments, via |-> "api",
               before |-> Before(c)])
    /\ UNCHANGED <<driver, feature, ext_vars, arrivals, client_state, ws_vars, qq_vars>>

AddSubscription(c, instrument) ==
    /\ driver = "api"
    /\ Idle
    /\ client_state[c] = "started"
    /\ Commit(HandleAddSubscription(Dist, c, instrument),
              [type |-> "AddSubscription", client_id |-> c,
               instrument |-> instrument, before |-> Before(c)])
    /\ UNCHANGED <<driver, feature, ext_vars, arrivals, client_state, ws_vars, qq_vars>>

RemoveSubscription(c, instrument) ==
    /\ driver = "api"
    /\ Idle
    /\ client_state[c] = "started"
    /\ Commit(HandleRemoveSubscription(Dist, c, instrument),
              [type |-> "RemoveSubscription", client_id |-> c,
               instrument |-> instrument, before |-> Before(c)])
    /\ UNCHANGED <<driver, feature, ext_vars, arrivals, client_state, ws_vars, qq_vars>>

\* The receiving actor takes the next MarketDataUpdateMessage off its mailbox.
RecipientReceive(c) ==
    /\ driver = "api"
    /\ Idle
    /\ mailboxes[c] # <<>>
    /\ mailboxes' = [mailboxes EXCEPT ![c] = Tail(@)]
    /\ NoDistStep
    /\ UNCHANGED <<driver, feature, ext_vars, DistFields, arrivals, client_state,
                   ws_vars, qq_vars>>

\* ------------------------------------------------------- driver "ws"
\* the WebSocket connections followed: one session, which is what the
\* session-side properties speak about
Sessions == {"c1"}

\* An ins_list string is modelled as the sequence of the pieces between its
\* commas, so the empty string is the single empty piece <<"">>.  The strings
\* tried: "", the comma-joined instrument lists and an instrument followed by
\* a trailing comma.
InsLists ==
    {<<"">>} \cup (InstrumentLists \ {<<>>}) \cup {<<i, "">> : i \in Instruments}
\* the "instruments" array of a legacy subscribe / unsubscribe payload
LegacyLists == InstrumentLists

parse_tv_instruments(ins_list) == SelectSeq(ins_list, LAMBDA t : t # "")

ErrorFrame(message) == [frame |-> "error", message |-> message]
SystemFrame(message) == [frame |-> "system", message |-> message]

\* do_send to the distributor
Enqueue(msg) == dist_mailbox' = Append(dist_mailbox, msg)

WsUnchanged ==
    /\ NoDistStep
    /\ UNCHANGED <<driver, feature, ext_vars, DistFields, mailboxes, arrivals, qq_vars>>

\* Actor::started of WsSession
WsStarted(c) ==
    /\ driver = "ws"
    /\ Idle
    /\ client_state[c] = "new"
    /\ Len(dist_mailbox) < MaxPending
    /\ client_state' = [client_state EXCEPT ![c] = "started"]
    /\ Enqueue([type |-> "Register", client_id |-> c, instruments |-> <<>>])
    /\ ws_last' = [op |-> "started", client_id |-> c,
                   frames |-> <<SystemFrame("Connected")>>]
    /\ UNCHANGED ws_subscriptions
    /\ WsUnchanged

\* what makes a session stop: a Close frame (ctx.close, ctx.stop), any other
\* stream item such as a protocol error (ctx.stop), the heartbeat closure
\* (ctx.stop)
ExitPaths == {"close", "error", "timeout"}

\* variant: a protocol error tears the session down without the hook
WsStopping_ErrorSkipsHook(c) ==
    /\ driver = "ws"
    /\ Idle
    /\ client_state[c] = "started"
    /\ Len(dist_mailbox) < MaxPending
    /\ client_state' = [client_state EXCEPT ![c] = "stopped"]
    /\ mailboxes' = [mailboxes EXCEPT ![c] = <<>>]
    /\ \E cause \in ExitPaths :
        /\ IF cause = "error" THEN UNCHANGED dist_mailbox
           ELSE Enqueue([type |-> "Unregister", client_id |-> c])
        /\ ws_last' = [op |-> "stopping", client_id |-> c, cause |-> cause,
                       frames |-> IF cause = "close"
                                  THEN <<[frame |-> "close"]>> ELSE <<>>]
    /\ NoDistStep
    /\ UNCHANGED <<driver, feature, ext_vars, DistFields, arrivals,
                   ws_subscriptions, qq_vars>>

\* ctx.stop() on any of the exit paths, then Actor::stopping of WsSession;
\* the session's mailbox goes with the actor
WsStopping(c) ==
    /\ driver = "ws"
    /\ Idle
    /\ client_state[c] = "started"
    /\ Len(dist_mailbox) < MaxPending
    /\ client_state' = [client_state EXCEPT ![c] = "stopped"]
    /\ mailboxes' = [mailboxes EXCEPT ![c] = <<>>]
    /\ Enqueue([type |-> "Unregister", client_id |-> c])
    /\ \E cause \in ExitPaths :
        ws_last' = [op |-> "stopping", client_id |-> c, cause |-> cause,
                    frames |-> IF cause = "close"
                               THEN <<[frame |-> "close"]>> ELSE <<>>]
    /\ NoDistStep
    /\ UNCHANGED <<driver, feature, ext_vars, DistFields, arrivals,
                   ws_subscriptions, qq_vars>>

\* WsSession::handle_subscribe: the frames it writes and the message it sends
\* are left in ws_last by the callers below.
handle_subscribe_frames(instruments) ==
    IF instruments = <<>>
    THEN <<ErrorFrame("No instruments specified")>>
    ELSE <<SystemFrame("Subscribed")>>

handle_subscribe(c, instruments, op, arg, more_frames) ==
    /\ IF instruments = <<>>
       THEN /\ UNCHANGED <<ws_subscriptions, dist_mailbox>>
            /\ ws_last' = [op |-> op, client_id |-> c, arg |-> arg,
                           frames |-> handle_subscribe_frames(instruments)
                                      \o more_frames,
                           update |-> FALSE]
       ELSE /\ Len(dist_mailbox) < MaxPending
            /\ ws_subscriptions' = [ws_subscriptions EXCEPT
                                       ![c] = @ \cup SeqToSet(instruments)]
            /\ Enqueue([type |-> "UpdateSubscription", client_id |-> c,
                        instruments |-> instruments, via |-> op])
            /\ ws_last' = [op |-> op, client_id |-> c, arg |-> arg,
                           frames |-> handle_subscribe_frames(instruments)
                                      \o more_frames,
                           update |-> TRUE]

handle_unsubscribe(c, instruments, op, arg) ==
    /\ IF instruments = <<>>
       THEN /\ UNCHANGED <<ws_subscriptions, dist_mailbox>>
            /\ ws_last' = [op |-> op, client_id |-> c, arg |-> arg,
                           frames |-> <<ErrorFrame("No instruments specified")>>,
                           update |-> FALSE]
       ELSE LET left == ws_subscriptions[c] \ SeqToSet(instruments)
                current_subscriptions == SetToSeq(left)
            IN /\ Len(dist_mailbox) < MaxPending
               /\ ws_subscriptions' = [ws_subscriptions EXCEPT ![c] = left]
               /\ Enqueue([type |-> "UpdateSubscription", client_id |-> c,
                           instruments |-> current_subscriptions,
                           via |-> op])
               /\ ws_last' = [op |-> op, client_id |-> c, arg |-> arg,
                              frames |-> <<SystemFrame("Unsubscribed")>>,
                              update |-> TRUE]

\* Text {"aid":"subscribe_quote","ins_list":...}
WsSubscribeQuote(c, ins_list) ==
    /\ driver = "ws"
    /\ Idle
    /\ client_state[c] = "started"
    /\ handle_subscribe(c, parse_tv_instruments(ins_list), "subscribe_quote",
                        ins_list,
                        <<[frame |-> "rsp_subscribe_quote",
                           ins_list |-> ins_list]>>)
    /\ UNCHANGED client_state
    /\ WsUnchanged

\* Text {"type":"subscribe","payload":{"instruments":[...]}}
WsLegacySubscribe(c, instruments) ==
    /\ driver = "ws"
    /\ Idle
    /\ client_state[c] = "started"
    /\ handle_subscribe(c, instruments, "subscribe", instruments, <<>>)
    /\ UNCHANGED client_state
    /\ WsUnchanged

\* Text {"type":"unsubscribe","payload":{"instruments":[...]}}
WsLegacyUnsubscribe(c, instruments) ==
    /\ driver = "ws"
    /\ Idle
    /\ client_state[c] = "started"
    /\ handle_unsubscribe(c, instruments, "unsubscribe", instruments)
    /\ UNCHANGED client_state
    /\ WsUnchanged

\* Text {"aid":"peek_message"}
WsPeekMessage(c) ==
    /\ driver = "ws"
    /\ Idle
    /\ client_state[c] = "started"
    /\ ws_last' = [op |-> "peek_message", client_id |-> c,
                   frames |-> <<[frame |-> "rsp_peek_message",
                                 ins_list |-> ws_subscriptions[c]]>>]
    /\ UNCHANGED <<client_state, ws_subscriptions, dist_mailbox>>
    /\ WsUnchanged

\* Text {"type":"subscriptions"}: handle_get_subscriptions
WsGetSubscriptions(c) ==
    /\ driver = "ws"
    /\ Idle
    /\ client_state[c] = "started"
    /\ ws_last' = [op |-> "subscriptions", client_id |-> c,
                   frames |-> <<[frame |-> "subscriptions",
                                 instruments |-> ws_subscriptions[c]]>>]
    /\ UNCHANGED <<client_state, ws_subscriptions, dist_mailbox>>
    /\ WsUnchanged

\* ---- text frames that reach no request handler
\* A text frame, as far as the parsers look at it: whether it is JSON, its
\* "aid" and "type" strings ("" when the key is missing) and whether it has
\* an "ins_list" string.
TextFrame(json, aid, has_ins_list, type) ==
    [json |-> json, aid |-> aid, has_ins_list |-> has_ins_list, type |-> type]

Texts ==
    { TextFrame(FALSE, "", FALSE, ""),              \* not JSON
      TextFrame(TRUE, "foo", FALSE, ""),            \* {"aid":"foo"}
      TextFrame(TRUE, "foo", TRUE, ""),             \* {"aid":"foo","ins_list":"au2212"}
      TextFrame(TRUE, "", FALSE, "bogus"),          \* {"type":"bogus"}
      TextFrame(TRUE, "peek_message", FALSE, "") }  \* {"aid":"peek_message"}

LegacyTypes == {"subscribe", "unsubscribe", "subscriptions", "auth", "ping"}
KnownAids == {"subscribe_quote", "peek_message"}

\* serde_json::from_str::<WsClientMessage>: the untagged enum takes the first
\* variant that fits, in declaration order
from_str(text) ==
    IF ~text.json THEN "Err"
    ELSE IF text.aid # "" /\ text.has_ins_list THEN "TvSubscribeQuote"
    ELSE IF text.type \in LegacyTypes THEN "LegacyMessage"
    ELSE IF text.aid # "" THEN "PeekMessage"
    ELSE "Err"

\* the error message of the match in StreamHandler::handle, "" when an arm
\* that serves a request is taken
ws_text_error(text) ==
    LET parsed == from_str(text)
    IN IF parsed = "TvSubscribeQuote" /\ text.aid = "subscribe_quote" THEN ""
       ELSE IF parsed = "PeekMessage" /\ text.aid = "peek_message" THEN ""
       ELSE IF parsed = "LegacyMessage" THEN ""
       ELSE IF parsed = "Err" THEN "Invalid message format"
       ELSE "Unknown message type"

\* variant: the session stops on a frame it cannot serve
WsText_Stops(c, text) ==
    /\ driver = "ws"
    /\ Idle
    /\ client_state[c] = "started"
    /\ ws_text_error(text) # ""
    /\ ws_last' = [op |-> "text", client_id |-> c, text |-> text,
                   before |-> ws_subscriptions[c], frames |-> <<>>]
    /\ client_state' = [client_state EXCEPT ![c] = "stopped"]
    /\ UNCHANGED <<ws_subscriptions, dist_mailbox>>
    /\ WsUnchanged

\* Text that ends in the Err arm or in the catch-all arm of the match
WsText(c, text) ==
    /\ driver = "ws"
    /\ Idle
    /\ client_state[c] = "started"
    /\ ws_text_error(text) # ""
    /\ ws_last' = [op |-> "text", client_id |-> c, text |-> text,
                   before |-> ws_subscriptions[c],
                   frames |-> <<ErrorFrame(ws_text_error(text))>>]
    /\ UNCHANGED <<client_state, ws_subscriptions, dist_mailbox>>
    /\ WsUnchanged

\* the keys of the JSON object send_market_data_to_client builds
SnapshotJsonKeys ==
    {"instrument_id", "last_price", "pre_settlement", "pre_close",
     "pre_open_interest", "open", "highest", "lowest", "volume", "amount",
     "open_interest", "close", "settlement", "upper_limit", "lower_limit",
     "bid_price1", "bid_volume1", "ask_price1", "ask_volume1",
     "bid_price2", "bid_volume2", "ask_price2", "ask_volume2",
     "bid_price3", "bid_volume3", "ask_price3", "ask_volume3",
     "bid_price4", "bid_volume4", "ask_price4", "ask_volume4",
     "bid_price5", "bid_volume5", "ask_price5", "ask_volume5",
     "average", "datetime"}

\* the fields of a Snapshot that are neither levels 2..10 nor tri-valued
\* (close, settlement, open interest, their previous values, iopv may be
\* absent on ingress)
MDSnapshotRequired ==
    {"instrument_id", "datetime", "last_price", "volume", "amount", "open",
     "highest", "lowest", "bid_price1", "bid_volume1", "ask_price1",
     "ask_volume1", "pre_close", "upper_limit", "lower_limit", "average"}

\* serde_json::from_value::<MDSnapshot>: succeeds when no required field is
\* missing
from_value_MDSnapshot(keys) == MDSnapshotRequired \subseteq keys

\* variant: only the TradingView frame is written
WsMarketData_TvOnly(c) ==
    /\ driver = "ws"
    /\ Idle
    /\ client_state[c] = "started"
    /\ mailboxes[c] # <<>>
    /\ LET msg == Head(mailboxes[c])
       IN ws_last' =
              [op |-> "market_data", client_id |-> c, msg |-> msg,
               subscribed |-> msg.instrument \in ws_subscriptions[c],
               frames |->
                 IF msg.instrument \in ws_subscriptions[c]
                 THEN <<[frame |-> "rtn_data", data |-> msg.data]>>
                 ELSE <<>>]
    /\ mailboxes' = [mailboxes EXCEPT ![c] = Tail(@)]
    /\ NoDistStep
    /\ UNCHANGED <<driver, feature, ext_vars, DistFields, arrivals, client_state,
                   ws_subscriptions, dist_mailbox, qq_vars>>

\* Handler<MarketDataUpdateMessage> of WsSession: for an instrument of the
\* session's own set, the TradingView frame, then the legacy frame if the
\* JSON converts back into an MDSnapshot.
WsMarketData(c) ==
    /\ driver = "ws"
    /\ Idle
    /\ client_state[c] = "started"
    /\ mailboxes[c] # <<>>
    /\ LET msg == Head(mailboxes[c])
       IN ws_last' =
              [op |-> "market_data", client_id |-> c, msg |-> msg,
               subscribed |-> msg.instrument \in ws_subscriptions[c],
               frames |->
                 IF msg.instrument \in ws_subscriptions[c]
                 THEN <<[frame |-> "rtn_data", data |-> msg.data]>>
                      \o (IF from_value_MDSnapshot(SnapshotJsonKeys)
                          THEN <<[frame |-> "market_data", data |-> msg.data]>>
                          ELSE <<>>)
                 ELSE <<>>]
    /\ mailboxes' = [mailboxes EXCEPT ![c] = Tail(@)]
    /\ NoDistStep
    /\ UNCHANGED <<driver, feature, ext_vars, DistFields, arrivals, client_state,
                   ws_subscriptions, dist_mailbox, qq_vars>>

\* The distributor takes the next message off its mailbox and handles it.
DistributorReceive ==
    /\ driver = "ws"
    /\ Idle
    /\ dist_mailbox # <<>>
    /\ LET msg == Head(dist_mailbox)
           c == msg.client_id
       IN CASE msg.type = "Register" ->
                 Commit(HandleRegisterDataReceiver(Dist, c, msg.instruments),
                        [type |-> "Register", client_id |-> c,
                         instruments |-> msg.instruments,
                         before |-> Before(c)])
            [] msg.type = "Unregister" ->
                 Commit(HandleUnregisterDataReceiver(Dist, c),
                        [type |-> "Unregister", client_id |-> c,
                         before |-> Before(c)])
            [] msg.type = "UpdateSubscription" ->
                 Commit(HandleUpdateSubscription(Dist, c, msg.instruments),
                        [type |-> "UpdateSubscription", client_id |-> c,
                         instruments |-> msg.instruments, via |-> msg.via,
                         before |-> Before(c)])
    /\ dist_mailbox' = Tail(dist_mailbox)
    /\ ws_last' = NoWs
    /\ UNCHANGED <<driver, feature, ext_vars, arrivals, client_state, ws_subscriptions,
                   qq_vars>>

NextWs ==
    \/ \E c \in Sessions : WsStarted(c)
    \/ \E c \in Sessions : WsStopping(c)
    \/ \E c \in Sessions, l \in InsLists : WsSubscribeQuote(c, l)
    \/ \E c \in Sessions, l \in LegacyLists : WsLegacySubscribe(c, l)
    \/ \E c \in Sessions, l \in LegacyLists : WsLegacyUnsubscribe(c, l)
    \/ \E c \in Sessions : WsPeekMessage(c)
    \/ \E c \in Sessions : WsGetSubscriptions(c)
    \/ \E c \in Sessions, t \in Texts : WsText(c, t)
    \/ \E c \in Sessions : WsMarketData(c)
    \/ DistributorReceive

\* ------------------------------------------------------- driver "qq"
\* The QQ gateway's distributor.  Its messages come from the sessions by way
\* of the connector, in each session's order: WebSocketConnect, then
\* AddSubscription / RemoveSubscription, then WebSocketDisconnect.
QQUnchanged ==
    UNCHANGED <<driver, feature, ext_vars, dist_vars, ws_vars>>

QQWebSocketConnect(c) ==
    /\ driver = "qq"
    /\ Idle
    /\ client_state[c] = "new"
    /\ client_state' = [client_state EXCEPT ![c] = "started"]
    /\ clients' = clients \cup {c}
    /\ qq_last' = [type |-> "WebSocketConnect", id |-> c, sent |-> <<>>]
    /\ UNCHANGED <<subscriptions, arrivals>>
    /\ QQUnchanged

\* subscribers.remove(id) on every set, then retain the non-empty sets
QQWebSocketDisconnect(c) ==
    /\ driver = "qq"
    /\ Idle
    /\ client_state[c] = "started"
    /\ client_state' = [client_state EXCEPT ![c] = "stopped"]
    /\ clients' = clients \ {c}
    /\ LET removed == [i \in DOMAIN subscriptions |-> subscriptions[i] \ {c}]
       IN subscriptions' =
              [i \in {j \in DOMAIN removed : removed[j] # {}} |-> removed[i]]
    /\ qq_last' = [type |-> "WebSocketDisconnect", id |-> c, sent |-> <<>>]
    /\ UNCHANGED arrivals
    /\ QQUnchanged

\* QQ gateway, Handler<AddSubscription>: entry(instrument).or_insert_with(
\* HashSet::new).insert(client_id), whoever the client is
qq_add_subscription(subs, client_id, instrument) ==
    Put(subs, instrument,
        (IF instrument \in DOMAIN subs THEN subs[instrument] ELSE {})
            \cup {client_id})

\* QQ gateway, Handler<RemoveSubscription>
qq_remove_subscription(subs, client_id, instrument) ==
    IF instrument \in DOMAIN subs
    THEN IF subs[instrument] \ {client_id} = {}
         THEN Del(subs, instrument)
         ELSE [subs EXCEPT ![instrument] = @ \ {client_id}]
    ELSE subs

QQAddSubscription(c, instrument) ==
    /\ driver = "qq"
    /\ Idle
    /\ client_state[c] = "started"
    /\ subscriptions' = qq_add_subscription(subscriptions, c, instrument)
    /\ qq_last' = [type |-> "AddSubscription", id |-> c,
                   instrument |-> instrument, sent |-> <<>>]
    /\ UNCHANGED <<clients, client_state, arrivals>>
    /\ QQUnchanged

QQRemoveSubscription(c, instrument) ==
    /\ driver = "qq"
    /\ Idle
    /\ client_state[c] = "started"
    /\ subscriptions' = qq_remove_subscription(subscriptions, c, instrument)
    /\ qq_last' = [type |-> "RemoveSubscription", id |-> c,
                   instrument |-> instrument, sent |-> <<>>]
    /\ UNCHANGED <<clients, client_state, arrivals>>
    /\ QQUnchanged

\* the error message of the QQ gateway's StreamHandler::handle for a text
\* frame, "" when a request arm is taken
qq_text_error(text) ==
    IF ~text.json THEN "Invalid JSON"
    ELSE IF text.aid # ""
         THEN IF text.aid \in KnownAids THEN "" ELSE "Unknown aid type"
         ELSE IF text.type \in LegacyTypes THEN ""
              ELSE "Invalid message format"

\* QQ gateway session: a text frame that reaches no request arm
QQWsText(c, text) ==
    /\ driver = "qq"
    /\ Idle
    /\ client_state[c] = "started"
    /\ qq_text_error(text) # ""
    /\ qq_last' = [type |-> "Text", id |-> c, text |-> text, sent |-> <<>>,
                   before |-> subscriptions,
                   frames |-> <<ErrorFrame(qq_text_error(text))>>]
    /\ UNCHANGED <<clients, subscriptions, client_state, arrivals>>
    /\ QQUnchanged

\* for each subscriber still connected: the legacy frame, then the
\* TradingView frame
RECURSIVE qq_send_loop(_, _, _)
qq_send_loop(client_ids, data, k) ==
    IF k > Len(client_ids) THEN <<>>
    ELSE (IF client_ids[k] \in clients
          THEN <<[client |-> client_ids[k], frame |-> "market_data",
                  data |-> data],
                 [client |-> client_ids[k], frame |-> "rtn_data",
                  data |-> data]>>
          ELSE <<>>)
         \o qq_send_loop(client_ids, data, k + 1)

QQMarketDataUpdate(instrument) ==
    /\ driver = "qq"
    /\ Idle
    /\ arrivals < MaxSnapshots
    /\ arrivals' = arrivals + 1
    /\ LET data == [instrument_id |-> instrument, seq |-> arrivals + 1]
       IN qq_last' =
              [type |-> "MarketDataUpdate", data |-> data,
               sent |-> IF instrument \in DOMAIN subscriptions
                        THEN qq_send_loop(SetToSeq(subscriptions[instrument]),
                                          data, 1)
                        ELSE <<>>]
    /\ UNCHANGED <<clients, subscriptions, client_state>>
    /\ QQUnchanged

NextQQ ==
    \/ \E c \in Clients : QQWebSocketConnect(c)
    \/ \E c \in Clients : QQWebSocketDisconnect(c)
    \/ \E c \in Clients, i \in Instruments : QQAddSubscription(c, i)
    \/ \E c \in Clients, i \in Instruments : QQRemoveSubscription(c, i)
    \/ \E i \in Instruments : QQMarketDataUpdate(i)
    \/ \E c \in Clients, t \in Texts : QQWsText(c, t)

\* ------------------------------------------------------- driver "hb"
\* The heartbeat of one session (the same code in the unified and in the QQ
\* gateway), with time in seconds.  The interval closure runs when its time
\* has come, before time moves on.
FrameKinds == {"Ping", "Pong", "Text", "Binary"}

HbAdvance ==
    /\ driver = "hb"
    /\ hb_state = "running"
    /\ now < MaxTime
    /\ now < next_tick
    /\ now' = now + 1
    /\ gap_over' = (gap_over \/ now + 1 - last_frame > CLIENT_TIMEOUT)
    /\ UNCHANGED <<heartbeat, next_tick, hb_state, pings, last_frame>>
    /\ UNCHANGED not_hb

\* StreamHandler::handle: Ping, Pong and Text set self.heartbeat
HbFrame(kind) ==
    /\ driver = "hb"
    /\ hb_state = "running"
    /\ heartbeat' = IF kind \in {"Ping", "Pong", "Text"} THEN now ELSE heartbeat
    /\ last_frame' = IF kind \in {"Ping", "Pong", "Text"} THEN now
                     ELSE last_frame
    /\ UNCHANGED <<now, next_tick, hb_state, pings, gap_over>>
    /\ UNCHANGED not_hb

\* variant: the closure stops the session as soon as the timeout is reached
HbTick_AtTimeout ==
    /\ driver = "hb"
    /\ hb_state = "running"
    /\ now = next_tick
    /\ IF now - heartbeat >= CLIENT_TIMEOUT
       THEN hb_state' = "stopped" /\ UNCHANGED pings
       ELSE pings' = pings + 1 /\ UNCHANGED hb_state
    /\ next_tick' = next_tick + HEARTBEAT_INTERVAL
    /\ UNCHANGED <<now, heartbeat, last_frame, gap_over>>
    /\ UNCHANGED not_hb

\* the closure of start_heartbeat
HbTick ==
    /\ driver = "hb"
    /\ hb_state = "running"
    /\ now = next_tick
    /\ IF now - heartbeat > CLIENT_TIMEOUT
       THEN hb_state' = "stopped" /\ UNCHANGED pings
       ELSE pings' = pings + 1 /\ UNCHANGED hb_state
    /\ next_tick' = next_tick + HEARTBEAT_INTERVAL
    /\ UNCHANGED <<now, heartbeat, last_frame, gap_over>>
    /\ UNCHANGED not_hb

NextHb ==
    \/ HbAdvance
    \/ \E kind \in FrameKinds : HbFrame(kind)
    \/ HbTick

InitHb == Init /\ driver = "hb"
SpecHb == InitHb /\ [][NextHb]_vars

\* --------------------------------------------------- driver "session"
\* The heartbeat of one MDSession of the qautlra-rs server, with time in
\* seconds.  heartbeat is MDSession.hb; last_frame is when the client last
\* sent a frame of any kind.
MDFrameKinds == {"Ping", "Pong", "Text", "BadText", "Binary"}

MDSessionAdvance ==
    /\ driver = "session"
    /\ hb_state = "running"
    /\ now < MaxTime
    /\ now < next_tick
    /\ now' = now + 1
    /\ gap_over' = (gap_over \/ now + 1 - last_frame > MD_CLIENT_TIMEOUT)
    /\ UNCHANGED <<heartbeat, next_tick, hb_state, pings, last_frame>>
    /\ UNCHANGED not_hb

\* StreamHandler::handle: Ping, Pong and a Text that parses set self.hb
MDSessionFrame(kind) ==
    /\ driver = "session"
    /\ hb_state = "running"
    /\ heartbeat' = IF kind \in {"Ping", "Pong", "Text"} THEN now ELSE heartbeat
    /\ last_frame' = now
    /\ UNCHANGED <<now, next_tick, hb_state, pings, gap_over>>
    /\ UNCHANGED not_hb

\* Handler<T>: a market-data message of the server is written to the client
MDSessionMarketData ==
    /\ driver = "session"
    /\ hb_state = "running"
    /\ heartbeat' = now
    /\ UNCHANGED <<now, next_tick, hb_state, pings, last_frame, gap_over>>
    /\ UNCHANGED not_hb

\* the closure of MDSession::hb
MDSessionHb ==
    /\ driver = "session"
    /\ hb_state = "running"
    /\ now = next_tick
    /\ IF now - heartbeat > MD_CLIENT_TIMEOUT
       THEN hb_state' = "stopped" /\ UNCHANGED pings
       ELSE pings' = pings + 1 /\ UNCHANGED hb_state
    /\ next_tick' = next_tick + MD_HEARTBEAT_INTERVAL
    /\ UNCHANGED <<now, heartbeat, last_frame, gap_over>>
    /\ UNCHANGED not_hb

NextSession ==
    \/ MDSessionAdvance
    \/ \E kind \in MDFrameKinds : MDSessionFrame(kind)
    \/ MDSessionMarketData
    \/ MDSessionHb

InitSession == Init /\ driver = "session"
SpecSession == InitSession /\ [][NextSession]_vars

\* ------------------------------------------------------- driver "md"
\* MDServer of qautlra-rs with its MDSession connections.

\* MDSession::started sends Connect and waits for the id; Handler<Connect>
\* takes the number of sessions as the new id.
MdConnect(k) ==
    /\ driver = "md"
    /\ md_conn[k] = "new"
    /\ LET id == Cardinality(DOMAIN md_sessions)
       IN /\ md_sessions' = Put(md_sessions, id, k)
          /\ md_id' = [md_id EXCEPT ![k] = id]
          /\ md_last' = [type |-> "Connect", connection |-> k, id |-> id]
    /\ md_conn' = [md_conn EXCEPT ![k] = "connected"]
    /\ UNCHANGED md_subscriptions
    /\ UNCHANGED not_md

\* Handler<Subscribe>: subscriptions.entry(i).or_insert_with(..).insert(id)
RECURSIVE md_subscribe_loop(_, _, _, _)
md_subscribe_loop(subs, instruments, id, k) ==
    IF k > Len(instruments) THEN subs
    ELSE LET i == instruments[k]
             held == IF i \in DOMAIN subs THEN subs[i] ELSE {}
         IN md_subscribe_loop(Put(subs, i, held \cup {id}), instruments, id,
                              k + 1)

MdSubscribe(k, instruments) ==
    /\ driver = "md"
    /\ md_conn[k] = "connected"
    /\ md_subscriptions' =
           md_subscribe_loop(md_subscriptions, instruments, md_id[k], 1)
    /\ md_last' = [type |-> "Subscribe", connection |-> k, id |-> md_id[k],
                   new_instruments |->
                       SelectSeq(instruments,
                                 LAMBDA i : ~(i \in DOMAIN md_subscriptions
                                              /\ md_id[k]
                                                   \in md_subscriptions[i]))]
    /\ UNCHANGED <<md_sessions, md_id, md_conn>>
    /\ UNCHANGED not_md

\* Handler<UnSubscribe>: the id leaves the sets of the instruments; a set
\* that becomes empty stays in the map and is unsubscribed from the feed
MdUnSubscribe(k, instruments) ==
    /\ driver = "md"
    /\ md_conn[k] = "connected"
    /\ md_subscriptions' =
           [i \in DOMAIN md_subscriptions |->
               IF i \in SeqToSet(instruments)
               THEN md_subscriptions[i] \ {md_id[k]}
               ELSE md_subscriptions[i]]
    /\ md_last' = [type |-> "UnSubscribe", connection |-> k, id |-> md_id[k],
                   instruments_to_unsubscribe |->
                       SelectSeq(instruments,
                                 LAMBDA i : i \in DOMAIN md_subscriptions
                                            /\ md_subscriptions[i]
                                                 \ {md_id[k]} = {})]
    /\ UNCHANGED <<md_sessions, md_id, md_conn>>
    /\ UNCHANGED not_md

\* MDSession::stopping sends Disconnect { id }; Handler<Disconnect>
MdDisconnect(k) ==
    /\ driver = "md"
    /\ md_conn[k] = "connected"
    /\ md_conn' = [md_conn EXCEPT ![k] = "closed"]
    /\ IF md_id[k] \in DOMAIN md_sessions
       THEN /\ md_sessions' = Del(md_sessions, md_id[k])
            /\ LET removed == [i \in DOMAIN md_subscriptions |->
                                  md_subscriptions[i] \ {md_id[k]}]
               IN md_subscriptions' =
                      [i \in {j \in DOMAIN removed : removed[j] # {}} |->
                          removed[i]]
       ELSE UNCHANGED <<md_sessions, md_subscriptions>>
    /\ md_last' = [type |-> "Disconnect", connection |-> k, id |-> md_id[k]]
    /\ UNCHANGED md_id
    /\ UNCHANGED not_md

NextMd ==
    \/ \E k \in Connections : MdConnect(k)
    \/ \E k \in Connections, l \in InstrumentLists \ {<<>>} : MdSubscribe(k, l)
    \/ \E k \in Connections, l \in InstrumentLists \ {<<>>} :
           MdUnSubscribe(k, l)
    \/ \E k \in Connections : MdDisconnect(k)

InitMd == Init /\ driver = "md"
SpecMd == InitMd /\ [][NextMd]_vars

\* ------------------------------------- the adapter (MarketDataActor)
\* One adapter actor and the native library behind it.  The distributor
\* names instruments with or without an exchange prefix ("SHFE.rb2512");
\* the native library knows codes only.
\* one message of the connector to an adapter
ToAdapter(adapter, msg, instruments) ==
    [adapter |-> adapter, msg |-> msg, instruments |-> instruments]

\* a callback that only takes away what the adapter holds in excess
callback_UnsubscribeOnly(b, query, current_subscriptions) ==
    LET to_unsubscribe == current_subscriptions \ query.active
    IN  IF to_unsubscribe # {}
        THEN {ToAdapter(b, "Unsubscribe", to_unsubscribe)} ELSE {}

\* the callback of a GetSubscriptions message: what it sends to its adapter
\* for the adapter's current subscriptions
callback(b, query, current_subscriptions) ==
    LET to_subscribe == query.active \ current_subscriptions
        to_unsubscribe == current_subscriptions \ query.active
    IN  (IF query.kind = "sync" /\ to_subscribe # {}
         THEN {ToAdapter(b, "Subscribe", to_subscribe)} ELSE {})
        \cup
        (IF to_unsubscribe # {}
         THEN {ToAdapter(b, "Unsubscribe", to_unsubscribe)} ELSE {})

AdapterInstruments ==
    {[exchange |-> "", code |-> "au2212"],
     [exchange |-> "SHFE", code |-> "rb2512"]}

\* s.split('.').last(): the code without the exchange prefix
instrument_code(s) == [exchange |-> "", code |-> s.code]

Codes == {instrument_code(s) : s \in AdapterInstruments}

\* subscribe_instruments: the native subscribe calls it makes (one batched
\* call, or none when the adapter is not logged in or has no api)
subscribe_instruments(logged_in, instruments) ==
    IF logged_in /\ md_api
    THEN <<{instrument_code(s) : s \in instruments}>>
    ELSE <<>>

\* the codes of the native calls of one handler
Called(calls) == UNION {calls[k] : k \in DOMAIN calls}

\* one event of the native library on its way to the actor's mailbox
MarketDataEvent(kind, about) == [kind |-> kind, about |-> about]

\* init_md_api, run by StartMarketData, InitMarketDataSource and by the
\* 30 s interval while the adapter is not connected: a native api is
\* created and starts connecting to the front.
ActorInit ==
    /\ driver = "adapter"
    /\ ~is_connected
    /\ md_api' = TRUE
    /\ front' = "connecting"
    /\ actor_last' = [op |-> "Init", calls |-> <<>>, thread |-> "actor"]
    /\ UNCHANGED <<is_connected, is_logged_in, subscribed_instruments,
                   login_sent, sub_requests, unsub_requests, desired,
                   disconnects, quiet>>
    /\ UNCHANGED <<actor_kind, sync_mail, refused, not_actor>>

\* on_front_connected and the Connected event: the adapter logs in.
FrontConnected ==
    /\ driver = "adapter"
    /\ front = "connecting"
    /\ front' = "up"
    /\ is_connected' = TRUE
    /\ login_sent' = md_api
    /\ actor_last' = [op |-> "Connected", calls |-> <<>>, thread |-> "actor"]
    /\ UNCHANGED <<md_api, is_logged_in, subscribed_instruments, sub_requests,
                   unsub_requests, desired, disconnects, quiet>>
    /\ UNCHANGED <<actor_kind, sync_mail, refused, not_actor>>

\* on_rsp_user_login and the LoggedIn event: the adapter subscribes again
\* to the instruments of subscribed_instruments, if there are any.
RspUserLogin(ok) ==
    /\ driver = "adapter"
    /\ front = "up"
    /\ login_sent
    /\ login_sent' = FALSE
    /\ IF ok
       THEN LET instruments == subscribed_instruments
                calls == IF instruments # {}
                         THEN subscribe_instruments(TRUE, instruments)
                         ELSE <<>>
            IN /\ is_logged_in' = TRUE
               /\ sub_requests' = sub_requests \cup Called(calls)
               /\ actor_last' = [op |-> "LoggedIn", calls |-> calls,
                                 thread |-> "actor",
                                 after_disconnect |-> disconnects > 0,
                                 quiet |-> quiet]
       ELSE /\ actor_last' = [op |-> "Error", calls |-> <<>>,
                              thread |-> "actor",
                              event |-> MarketDataEvent("Error", "login")]
            /\ UNCHANGED <<is_logged_in, sub_requests>>
    /\ UNCHANGED <<md_api, is_connected, subscribed_instruments, front,
                   unsub_requests, desired, disconnects, quiet>>
    /\ refused' = IF ok
                  THEN {s \in refused :
                           instrument_code(s) \notin subscribed_instruments}
                  ELSE refused
    /\ UNCHANGED <<actor_kind, sync_mail, not_actor>>

\* Handler<Subscribe> that enters the instruments in subscribed_instruments
\* before the front has answered
ActorSubscribe_Optimistic(instruments) ==
    /\ driver = "adapter"
    /\ LET calls == subscribe_instruments(is_logged_in, instruments)
       IN /\ sub_requests' = sub_requests \cup Called(calls)
          /\ subscribed_instruments' = subscribed_instruments
                                           \cup Called(calls)
          /\ actor_last' = [op |-> "Subscribe", calls |-> calls,
                            thread |-> "actor", logged_in |-> is_logged_in,
                            instruments |-> instruments]
    /\ desired' = desired \cup instruments
    /\ quiet' = FALSE
    /\ UNCHANGED <<md_api, is_connected, is_logged_in,
                   front, login_sent, unsub_requests, disconnects>>
    /\ refused' = IF subscribe_instruments(is_logged_in, instruments) = <<>>
                  THEN refused \cup instruments
                  ELSE refused \ instruments
    /\ UNCHANGED <<actor_kind, sync_mail, not_actor>>

\* Handler<Subscribe>: the distributor asks for instruments.
ActorSubscribe(instruments) ==
    /\ driver = "adapter"
    /\ LET calls == subscribe_instruments(is_logged_in, instruments)
       IN /\ sub_requests' = sub_requests \cup Called(calls)
          /\ actor_last' = [op |-> "Subscribe", calls |-> calls,
                            thread |-> "actor", logged_in |-> is_logged_in,
                            instruments |-> instruments]
    /\ desired' = desired \cup instruments
    /\ quiet' = FALSE
    /\ UNCHANGED <<md_api, is_connected, is_logged_in, subscribed_instruments,
                   front, login_sent, unsub_requests, disconnects>>
    /\ refused' = IF subscribe_instruments(is_logged_in, instruments) = <<>>
                  THEN refused \cup instruments
                  ELSE refused \ instruments
    /\ UNCHANGED <<actor_kind, sync_mail, not_actor>>

\* Handler<Unsubscribe>: the distributor gives instruments up.
ActorUnsubscribe(instruments) ==
    /\ driver = "adapter"
    /\ unsub_requests' = IF is_logged_in /\ md_api
                         THEN unsub_requests
                              \cup {instrument_code(s) : s \in instruments}
                         ELSE unsub_requests
    /\ actor_last' = [op |-> "Unsubscribe", calls |-> <<>>,
                      thread |-> "actor"]
    /\ desired' = desired \ instruments
    /\ quiet' = FALSE
    /\ UNCHANGED <<md_api, is_connected, is_logged_in, subscribed_instruments,
                   front, login_sent, sub_requests, disconnects>>
    /\ refused' = refused \ instruments
    /\ UNCHANGED <<actor_kind, sync_mail, not_actor>>

\* on_rsp_sub_market_data, on the thread of the native library: the front
\* answers one subscribe request; a success enters the code in
\* subscribed_instruments, and the event goes to the actor, which logs it.
RspSubMarketData(code, ok) ==
    /\ driver = "adapter"
    /\ front = "up"
    /\ code \in sub_requests
    /\ sub_requests' = sub_requests \ {code}
    /\ subscribed_instruments' = IF ok THEN subscribed_instruments \cup {code}
                                 ELSE subscribed_instruments
    /\ actor_last' = [op |-> "RspSub", calls |-> <<>>, thread |-> "spi",
                      code |-> code, ok |-> ok,
                      event |-> IF ok
                                THEN MarketDataEvent("SubscriptionSuccess",
                                                     code)
                                ELSE MarketDataEvent("SubscriptionFailure",
                                                     code)]
    /\ UNCHANGED <<md_api, is_connected, is_logged_in, front, login_sent,
                   unsub_requests, desired, disconnects, quiet>>
    /\ UNCHANGED <<actor_kind, sync_mail, refused, not_actor>>

\* on_rsp_un_sub_market_data: the same for an unsubscribe request, with
\* no event for the actor.
RspUnSubMarketData(code, ok) ==
    /\ driver = "adapter"
    /\ front = "up"
    /\ code \in unsub_requests
    /\ unsub_requests' = unsub_requests \ {code}
    /\ subscribed_instruments' = IF ok THEN subscribed_instruments \ {code}
                                 ELSE subscribed_instruments
    /\ actor_last' = [op |-> "RspUnSub", calls |-> <<>>, thread |-> "spi",
                      code |-> code, ok |-> ok]
    /\ UNCHANGED <<md_api, is_connected, is_logged_in, front, login_sent,
                   sub_requests, desired, disconnects, quiet>>
    /\ UNCHANGED <<actor_kind, sync_mail, refused, not_actor>>

\* on_front_disconnected and the Disconnected event: both flags are
\* cleared and subscribed_instruments is kept.  The native library connects
\* again by itself; which of the requests in flight still get an answer is
\* not known.
FrontDisconnected ==
    /\ driver = "adapter"
    /\ front = "up"
    /\ disconnects < MaxDisconnects
    /\ disconnects' = disconnects + 1
    /\ front' = "connecting"
    /\ is_connected' = FALSE
    /\ is_logged_in' = FALSE
    /\ login_sent' = FALSE
    /\ \E kept \in SUBSET sub_requests : sub_requests' = kept
    /\ \E kept \in SUBSET unsub_requests : unsub_requests' = kept
    /\ quiet' = TRUE
    /\ actor_last' = [op |-> "Disconnected", calls |-> <<>>, thread |-> "actor"]
    /\ UNCHANGED <<md_api, subscribed_instruments, desired>>
    /\ UNCHANGED <<actor_kind, sync_mail, refused, not_actor>>

\* the closure of the 30 s run_interval, for a connected adapter: whether
\* it calls login() when the adapter is not logged in
heartbeat_login(kind) == kind = "SinaMarketDataActor"

\* The 30 s run_interval of started(): an adapter that is not connected
\* runs init_md_api again; the Sina adapter, connected and not logged in,
\* calls login().  A login request reaches the front only while the front
\* is up.
ActorHeartbeat ==
    /\ driver = "adapter"
    /\ md_api' = (md_api \/ ~is_connected)
    /\ front' = IF ~is_connected THEN "connecting" ELSE front
    /\ login_sent' = IF is_connected /\ ~is_logged_in
                        /\ heartbeat_login(actor_kind)
                     THEN md_api /\ front = "up"
                     ELSE login_sent
    /\ actor_last' = [op |-> "Heartbeat", calls |-> <<>>, thread |-> "actor",
                      connected |-> is_connected, logged_in |-> is_logged_in,
                      pending |-> login_sent]
    /\ UNCHANGED <<is_connected, is_logged_in, subscribed_instruments,
                   sub_requests, unsub_requests, desired, disconnects, quiet>>
    /\ UNCHANGED <<actor_kind, sync_mail, refused, not_actor>>

\* Handler<RestartActor>: an adapter that is not connected or not logged in
\* creates its api if it has none and calls login().
ActorRestart ==
    /\ driver = "adapter"
    /\ ~is_connected \/ ~is_logged_in
    /\ md_api' = TRUE
    /\ front' = IF md_api THEN front ELSE "connecting"
    /\ login_sent' = IF md_api /\ front = "up" THEN TRUE ELSE login_sent
    /\ actor_last' = [op |-> "Restart", calls |-> <<>>, thread |-> "actor"]
    /\ UNCHANGED <<is_connected, is_logged_in, subscribed_instruments,
                   sub_requests, unsub_requests, desired, disconnects, quiet>>
    /\ UNCHANGED <<actor_kind, sync_mail, refused, not_actor>>

NextActor ==
    \/ ActorInit
    \/ FrontConnected
    \/ \E ok \in BOOLEAN : RspUserLogin(ok)
    \/ \E instruments \in (SUBSET AdapterInstruments) \ {{}} :
           ActorSubscribe(instruments)
    \/ \E instruments \in (SUBSET AdapterInstruments) \ {{}} :
           ActorUnsubscribe(instruments)
    \/ \E code \in Codes, ok \in BOOLEAN : RspSubMarketData(code, ok)
    \/ \E code \in Codes, ok \in BOOLEAN : RspUnSubMarketData(code, ok)
    \/ FrontDisconnected
    \/ ActorHeartbeat
    \/ ActorRestart

InitActor == Init /\ driver = "adapter"
SpecActor == InitActor /\ [][NextActor]_vars

\* ------------------------------------- the adapter under reconciliation
\* The connector's 30 s interval: sync_subscriptions asks the distributor,
\* whose answer is the instruments it has asked this adapter for, and
\* sends the adapter GetSubscriptions with the closure that holds them.
ActorSync(b) ==
    /\ driver = "adapter"
    /\ sync_mail = <<>>
    /\ sync_mail' = Append(sync_mail,
                           [msg |-> "GetSubscriptions", active |-> desired])
    /\ actor_last' = [op |-> "Sync", calls |-> <<>>, thread |-> "actor"]
    /\ UNCHANGED <<md_api, is_connected, is_logged_in, subscribed_instruments,
                   front, login_sent, sub_requests, unsub_requests, desired,
                   disconnects, quiet, actor_kind, refused, not_actor>>

\* the messages of a callback in the order it sends them
sent_in_order(b, messages) ==
    (IF \E m \in messages : m.msg = "Subscribe"
     THEN <<CHOOSE m \in messages : m.msg = "Subscribe">> ELSE <<>>)
    \o (IF \E m \in messages : m.msg = "Unsubscribe"
        THEN <<CHOOSE m \in messages : m.msg = "Unsubscribe">> ELSE <<>>)

\* Handler<GetSubscriptions>: the adapter runs the closure on its
\* subscribed_instruments; what the closure sends goes to the adapter's
\* own mailbox.
ActorGetSubscriptions(b) ==
    /\ driver = "adapter"
    /\ sync_mail # <<>>
    /\ Head(sync_mail).msg = "GetSubscriptions"
    /\ LET query == [kind |-> "sync", active |-> Head(sync_mail).active]
           sent == sent_in_order(b, callback(b, query, subscribed_instruments))
       IN /\ sync_mail' = Tail(sync_mail) \o sent
          /\ actor_last' = [op |-> "GetSubscriptions", calls |-> <<>>,
                            thread |-> "actor", sent |-> sent]
    /\ UNCHANGED <<md_api, is_connected, is_logged_in, subscribed_instruments,
                   front, login_sent, sub_requests, unsub_requests, desired,
                   disconnects, quiet, actor_kind, refused, not_actor>>

\* Handler<Subscribe> and Handler<Unsubscribe> for a message of the
\* reconciliation: the distributor's demand is what it was.
ActorReconcile ==
    /\ driver = "adapter"
    /\ sync_mail # <<>>
    /\ Head(sync_mail).msg \in {"Subscribe", "Unsubscribe"}
    /\ sync_mail' = Tail(sync_mail)
    /\ LET m == Head(sync_mail)
           calls == IF m.msg = "Subscribe"
                    THEN subscribe_instruments(is_logged_in, m.instruments)
                    ELSE <<>>
       IN /\ sub_requests' = sub_requests \cup Called(calls)
          /\ unsub_requests' =
                 IF m.msg = "Unsubscribe" /\ is_logged_in /\ md_api
                 THEN unsub_requests
                      \cup {instrument_code(s) : s \in m.instruments}
                 ELSE unsub_requests
          /\ refused' = {s \in refused :
                            instrument_code(s) \notin Called(calls)}
          /\ actor_last' = [op |-> "Reconcile", calls |-> calls,
                            thread |-> "actor", message |-> m,
                            refused |-> refused]
    /\ UNCHANGED <<md_api, is_connected, is_logged_in, subscribed_instruments,
                   front, login_sent, desired, disconnects, quiet, actor_kind,
                   not_actor>>

\* The adapter of the reconciliation keeps the session it has logged in to:
\* the loss of the front is SpecActor's.
NextSync ==
    \/ ActorInit
    \/ FrontConnected
    \/ \E ok \in BOOLEAN : RspUserLogin(ok)
    \/ \E instruments \in (SUBSET AdapterInstruments) \ {{}} :
           ActorSubscribe(instruments)
    \/ \E instruments \in (SUBSET AdapterInstruments) \ {{}} :
           ActorUnsubscribe(instruments)
    \/ \E code \in Codes, ok \in BOOLEAN : RspSubMarketData(code, ok)
    \/ \E code \in Codes, ok \in BOOLEAN : RspUnSubMarketData(code, ok)
    \/ ActorHeartbeat
    \/ ActorRestart
    \/ \E b \in Brokers : ActorSync(b)
    \/ \E b \in Brokers : ActorGetSubscriptions(b)
    \/ ActorReconcile

\* The interval fires again and again and the adapter takes the messages
\* of its mailbox.
SyncFairness ==
    /\ WF_vars(\E b \in Brokers : ActorSync(b))
    /\ WF_vars(\E b \in Brokers : ActorGetSubscriptions(b))
    /\ WF_vars(ActorReconcile)

\* the adapter the connector of the CTP gateway reconciles
InitSync == InitActor /\ actor_kind = "MarketDataActor"

SpecSync == InitSync /\ [][NextSync]_vars /\ SyncFairness

\* ------------------------------------------------ driver "json"
\* let json = serde_json::to_string(&snapshot).unwrap();
JsToString(omitted) ==
    /\ driver = "json"
    /\ js_json = NoJson
    /\ omitted \subseteq Omittable(js_snapshot)
    /\ js_json' = to_string(js_snapshot, omitted)
    /\ UNCHANGED <<js_snapshot, js_back, not_json>>

\* the test reading the text back with the sentinel string taken for no
\* value
JsFromStr_Coerces ==
    /\ driver = "json"
    /\ js_json # NoJson
    /\ js_back = NoJson
    /\ js_back' = from_str_MDSnapshot(
                      [k \in DOMAIN js_json |->
                          IF k \in {"open_interest", "settlement", "iopv"}
                             /\ js_json[k].json = "string" THEN JNull
                          ELSE js_json[k]])
    /\ UNCHANGED <<js_snapshot, js_json, not_json>>

\* let deserialized: MDSnapshot = serde_json::from_str(&json).unwrap();
JsFromStr ==
    /\ driver = "json"
    /\ js_json # NoJson
    /\ js_back = NoJson
    /\ js_back' = from_str_MDSnapshot(js_json)
    /\ UNCHANGED <<js_snapshot, js_json, not_json>>

NextJson ==
    \/ \E omitted \in SUBSET OptionalKeys : JsToString(omitted)
    \/ JsFromStr

InitJson == Init /\ driver = "json"
SpecJson == InitJson /\ [][NextJson]_vars

\* ------------------------------------------------ the CTP gateway's connector
\* MarketDataConnector of the CTP gateway between its sessions, its
\* distributor and its adapters: one MarketDataActor per broker in
\* md_sources, the QQ and the Sina actor once they are registered.
Feeds == {"QQ", "Sina"}

feed_source(feed) == IF feed = "QQ" THEN qq_source ELSE sina_source

\* the adapters the connector holds an address of
Managed == Brokers \cup {f \in Feeds : feed_source(f)}

\* the CTP gateway's distributor handling AddSubscription for each
\* instrument of a request
cn_add(held, c, instruments) == [held EXCEPT ![c] = @ \cup instruments]

\* the CTP gateway's distributor handling RemoveSubscription for each
\* instrument of a request
cn_remove(held, c, instruments) == [held EXCEPT ![c] = @ \ instruments]

\* the CTP gateway's distributor answering GetAllSubscriptions
cn_active(held) == UNION {held[c] : c \in Clients}

\* do_send(GetSubscriptions { callback }) to every actor of md_sources
cn_ask(kind, active) ==
    [b \in Brokers |-> Append(cn_queries[b],
                              [kind |-> kind, active |-> active])]

\* The record of the handler that ran last is held for one state: the next
\* step is the handler's return, and the next message is taken after it.
CnIdle == driver = "connector" /\ cn_last = [op |-> "None"]

CnReturn ==
    /\ driver = "connector"
    /\ cn_last # [op |-> "None"]
    /\ cn_last' = [op |-> "None"]
    /\ UNCHANGED <<qq_source, sina_source, cn_held, cn_subs, cn_queries,
                   not_conn>>

CnRoom == \A b \in Brokers : Len(cn_queries[b]) < MaxQueries

CnStep(op, c, instruments, before, to_adapters, to_distributor, asked) ==
    cn_last' = [op |-> op, client |-> c, instruments |-> instruments,
                before |-> before, to_adapters |-> to_adapters,
                to_distributor |-> to_distributor, asked |-> asked]

\* Handler<Subscribe>
CnSubscribe(c, instruments) ==
    /\ CnIdle
    /\ cn_held' = cn_add(cn_held, c, instruments)
    /\ CnStep("Subscribe", c, instruments, cn_held[c],
              {ToAdapter(b, "Subscribe", instruments) : b \in Brokers},
              {[msg |-> "AddSubscription", instrument |-> i] :
                  i \in instruments}, {})
    /\ UNCHANGED <<qq_source, sina_source, cn_subs, cn_queries, not_conn>>

\* Handler<Unsubscribe>: RemoveSubscription for each instrument, then the
\* spawned future asks the distributor and every actor of md_sources
CnUnsubscribe(c, instruments) ==
    /\ CnIdle
    /\ CnRoom
    /\ cn_held' = cn_remove(cn_held, c, instruments)
    /\ cn_queries' = cn_ask("unsubscribe", cn_active(cn_held'))
    /\ CnStep("Unsubscribe", c, instruments, cn_held[c], {},
              {[msg |-> "RemoveSubscription", instrument |-> i] :
                  i \in instruments}, Brokers)
    /\ UNCHANGED <<qq_source, sina_source, cn_subs, not_conn>>

\* Handler<SubscribeQQ>, Handler<SubscribeSina>
CnSubscribeFeed(c, feed, instruments) ==
    /\ CnIdle
    /\ cn_held' = cn_add(cn_held, c, instruments)
    /\ CnStep("Subscribe" \o feed, c, instruments, cn_held[c],
              IF feed_source(feed)
              THEN {ToAdapter(feed, "Subscribe", instruments)} ELSE {},
              {[msg |-> "AddSubscription", instrument |-> i] :
                  i \in instruments}, {})
    /\ UNCHANGED <<qq_source, sina_source, cn_subs, cn_queries, not_conn>>

\* Handler<UnsubscribeQQ>, Handler<UnsubscribeSina>
CnUnsubscribeFeed(c, feed, instruments) ==
    /\ CnIdle
    /\ cn_held' = cn_remove(cn_held, c, instruments)
    /\ CnStep("Unsubscribe" \o feed, c, instruments, cn_held[c],
              IF feed_source(feed)
              THEN {ToAdapter(feed, "Unsubscribe", instruments)} ELSE {},
              {[msg |-> "RemoveSubscription", instrument |-> i] :
                  i \in instruments}, {})
    /\ UNCHANGED <<qq_source, sina_source, cn_subs, cn_queries, not_conn>>

\* Handler<RegisterQQMdActor>, Handler<RegisterSinaMdActor>
CnRegisterFeed(feed) ==
    /\ CnIdle
    /\ ~feed_source(feed)
    /\ qq_source' = (qq_source \/ feed = "QQ")
    /\ sina_source' = (sina_source \/ feed = "Sina")
    /\ CnStep("Register" \o feed, "", {}, {},
              {ToAdapter(feed, "RegisterDistributor", {})}, {}, {})
    /\ UNCHANGED <<cn_held, cn_subs, cn_queries, not_conn>>

\* sync_subscriptions: the adapters it sends GetSubscriptions to
sync_subscriptions == Brokers

\* the 30 s run_interval of init_market_data_sources
CnSync ==
    /\ CnIdle
    /\ CnRoom
    /\ cn_queries' = cn_ask("sync", cn_active(cn_held))
    /\ CnStep("Sync", "", cn_active(cn_held), {}, {}, {},
              sync_subscriptions)
    /\ UNCHANGED <<qq_source, sina_source, cn_held, cn_subs, not_conn>>

\* the adapter of broker b handles GetSubscriptions and runs its callback
CnGetSubscriptions(b) ==
    /\ CnIdle
    /\ cn_queries[b] # <<>>
    /\ cn_queries' = [cn_queries EXCEPT ![b] = Tail(@)]
    /\ CnStep("GetSubscriptions:" \o Head(cn_queries[b]).kind, b,
              Head(cn_queries[b]).active, cn_subs[b],
              callback(b, Head(cn_queries[b]), cn_subs[b]), {}, {})
    /\ UNCHANGED <<qq_source, sina_source, cn_held, cn_subs, not_conn>>

\* the native library acknowledges a subscription (added) or the end of
\* one to the adapter of broker b
CnRsp(b, instrument, added) ==
    /\ CnIdle
    /\ cn_subs' = [cn_subs EXCEPT ![b] = IF added THEN @ \cup {instrument}
                                         ELSE @ \ {instrument}]
    /\ cn_subs' # cn_subs
    /\ CnStep("Rsp", b, {instrument}, cn_subs[b], {}, {}, {})
    /\ UNCHANGED <<qq_source, sina_source, cn_held, cn_queries, not_conn>>

NextConn ==
    \/ \E c \in Clients, S \in SUBSET Instruments : CnSubscribe(c, S)
    \/ \E c \in Clients, S \in SUBSET Instruments : CnUnsubscribe(c, S)
    \/ \E c \in Clients, f \in Feeds, S \in SUBSET Instruments :
           CnSubscribeFeed(c, f, S)
    \/ \E c \in Clients, f \in Feeds, S \in SUBSET Instruments :
           CnUnsubscribeFeed(c, f, S)
    \/ \E f \in Feeds : CnRegisterFeed(f)
    \/ CnSync
    \/ \E b \in Brokers : CnGetSubscriptions(b)
    \/ \E b \in Brokers, i \in Instruments, added \in BOOLEAN :
           CnRsp(b, i, added)
    \/ CnReturn

InitConn == Init /\ driver = "connector"
SpecConn == InitConn /\ [][NextConn]_vars

\* ------------------------------------------------ driver "norm"
\* subscribe_instruments / unsubscribe_instruments of a logged-in adapter
NmRequest(op) ==
    /\ driver = "norm"
    /\ nm_native = NoCall
    /\ nm_native' = [op |-> op,
                     code |-> IF op = "unsubscribe"
                              THEN unsubscribe_code(nm_adapter, nm_id)
                              ELSE native_code(nm_adapter, nm_id)]
    /\ UNCHANGED <<nm_adapter, nm_id, nm_subscribed, nm_sync, not_norm>>

\* MdSpi::on_rsp_sub_market_data with an ok result: the InstrumentID of the
\* response, which is the code the request was made with, is inserted
NmRspSub ==
    /\ driver = "norm"
    /\ nm_native # NoCall
    /\ nm_native.op = "subscribe"
    /\ nm_native.code \notin nm_subscribed
    /\ nm_subscribed' = nm_subscribed \cup {nm_native.code}
    /\ UNCHANGED <<nm_adapter, nm_id, nm_native, nm_sync, not_norm>>

\* sync_subscriptions of the futures gateway's connector while the
\* request's instrument is the clients' whole demand: the distributor
\* answers with its key, the adapter with its subscribed_instruments
NmSync(b) ==
    /\ driver = "norm"
    /\ nm_adapter = "CTP"
    /\ nm_native # NoCall
    /\ nm_native.op = "subscribe"
    /\ nm_sync = NoCall
    /\ nm_sync' = [op |-> "sync", acknowledged |-> nm_subscribed # {},
                   sent |-> callback(b, [kind |-> "sync",
                                            active |-> {nm_id}],
                                     nm_subscribed)]
    /\ UNCHANGED <<nm_adapter, nm_id, nm_native, nm_subscribed, not_norm>>

NextNorm ==
    \/ NmRequest("subscribe")
    \/ NmRequest("unsubscribe")
    \/ NmRspSub
    \/ \E b \in Brokers : NmSync(b)

InitNorm == Init /\ driver = "norm"
SpecNorm == InitNorm /\ [][NextNorm]_vars

NextApi ==
    \/ \E c \in Clients, l \in InstrumentLists : RegisterDataReceiver(c, l)
    \/ \E c \in Clients : UnregisterDataReceiver(c)
    \/ \E c \in Clients, l \in InstrumentLists : UpdateSubscription(c, l)
    \/ \E c \in Clients, i \in Instruments : AddSubscription(c, i)
    \/ \E c \in Clients, i \in Instruments : RemoveSubscription(c, i)
    \/ \E c \in Clients : RecipientReceive(c)

NextDist ==
    \/ \E s \in MarketDataSource : RegisterMdActor(s)
    \/ \E i \in Instruments, s \in MarketDataSource : MarketDataUpdate(i, s)

Next == NextDist \/ NextApi \/ NextQQ \/ Return

\* the two distributors behind their message interfaces
InitMessages == Init /\ driver \in {"api", "qq"}
Spec == InitMessages /\ [][Next]_vars

\* the unified distributor behind WebSocket sessions
InitSessions == Init /\ driver = "ws"
NextSessions == NextDist \/ NextWs \/ Return
SpecWs == InitSessions /\ [][NextSessions]_vars

\* ============================================================ properties
InIndex(c, i) ==
    i \in DOMAIN instrument_subscribers /\ c \in instrument_subscribers[i]
Holds(c, i) == c \in DOMAIN subscribers /\ i \in subscribers[c]

\* number of entries of a sequence that satisfy Test
Count(s, Test(_)) == Cardinality({k \in DOMAIN s : Test(s[k])})

\* C1: the two maps of the unified distributor are reciprocal after every
\* handled message: i is in c's subscription set iff c is in the subscriber
\* set of i.
C1_ReciprocalMaps ==
    \A c \in Clients, i \in Instruments : Holds(c, i) <=> InIndex(c, i)

\* C2: after Unregister(c) has been handled, c has no subscription entry and
\* no instrument's subscriber set contains c.
C2_UnregisterRemovesClient ==
    last_msg.type = "Unregister" =>
        /\ last_msg.client_id \notin DOMAIN subscribers
        /\ \A i \in Instruments : ~InIndex(last_msg.client_id, i)

\* C3: after UpdateSubscription(c, D) has been handled for a registered
\* client c, c's subscription set is exactly D.
C3_UpdateSetsExactly ==
    (last_msg.type = "UpdateSubscription"
     /\ last_msg.client_id \in DOMAIN subscribers) =>
        subscribers[last_msg.client_id] = SeqToSet(last_msg.instruments)

\* C3 witness: an update that both added and removed instruments
C3_Witness ==
    /\ last_msg.type = "UpdateSubscription"
    /\ last_msg.client_id \in DOMAIN subscribers
    /\ SeqToSet(last_msg.instruments) \ last_msg.before # {}
    /\ last_msg.before \ SeqToSet(last_msg.instruments) # {}

\* C4: after any handled message no key of the instrument index maps to an
\* empty subscriber set, in the unified distributor and in the QQ gateway's.
C4_NoEmptySubscriberSet ==
    /\ \A i \in DOMAIN instrument_subscribers :
           instrument_subscribers[i] # {}
    /\ \A i \in DOMAIN subscriptions : subscriptions[i] # {}

\* C4 witness: the last subscriber of an instrument has just been removed and
\* the instrument left the index
C4_Witness ==
    /\ last_msg.type \in {"RemoveSubscription", "UpdateSubscription"}
    /\ \E i \in last_msg.before :
           /\ ~Holds(last_msg.client_id, i)
           /\ i \notin DOMAIN instrument_subscribers

\* C5: a handled snapshot for instrument i is sent exactly once to every
\* client in subscribers(i) and to no other client; in the QQ gateway every
\* subscriber gets exactly one frame of each dialect.
C5_SnapshotToEverySubscriber ==
    /\ last_msg.type = "MarketDataUpdate" =>
           \A c \in Clients :
               Count(last_sent,
                     LAMBDA m : m.client = c /\ m.data = last_msg.data)
                 = IF InIndex(c, last_msg.data.instrument_id) THEN 1 ELSE 0
    /\ qq_last.type = "MarketDataUpdate" =>
           \A c \in Clients, f \in {"market_data", "rtn_data"} :
               Count(qq_last.sent,
                     LAMBDA m : m.client = c /\ m.frame = f
                                /\ m.data = qq_last.data)
                 = IF /\ qq_last.data.instrument_id \in DOMAIN subscriptions
                      /\ c \in subscriptions[qq_last.data.instrument_id]
                   THEN 1 ELSE 0

\* C6: a client that becomes a new subscriber of i through Register,
\* UpdateSubscription or AddSubscription while the cache holds a snapshot of
\* i is sent exactly one copy of that snapshot by the subscribing handler
\* itself, hence before any later live snapshot of i.
C6_ReplayOnceOnSubscribe ==
    last_msg.type \in {"Register", "UpdateSubscription", "AddSubscription"} =>
        \A i \in Instruments :
            (/\ Holds(last_msg.client_id, i)
             /\ i \notin last_msg.before
             /\ i \in DOMAIN market_data_cache) =>
                /\ Count(last_sent,
                         LAMBDA m : m.client = last_msg.client_id
                                    /\ m.instrument = i) = 1
                /\ \A k \in DOMAIN last_sent :
                       (last_sent[k].client = last_msg.client_id
                        /\ last_sent[k].instrument = i) =>
                           last_sent[k].data = market_data_cache[i]

\* C6 witness: a client has just become a new subscriber of an instrument
\* whose snapshot is cached
C6_Witness ==
    /\ last_msg.type \in {"Register", "UpdateSubscription", "AddSubscription"}
    /\ \E i \in Instruments :
           /\ Holds(last_msg.client_id, i)
           /\ i \notin last_msg.before
           /\ i \in DOMAIN market_data_cache

\* C7: the snapshots of one instrument reach a subscriber in the order in
\* which they arrived at the distributor: every send carries the newest
\* snapshot of its instrument, and within a client's mailbox the snapshots
\* of an instrument are in arrival order and none is newer than the cache.
C7_DeliveryInArrivalOrder ==
    /\ \A k \in DOMAIN last_sent :
           /\ last_sent[k].instrument \in DOMAIN market_data_cache
           /\ last_sent[k].data = market_data_cache[last_sent[k].instrument]
    /\ \A c \in Clients :
           /\ \A p, q \in DOMAIN mailboxes[c] :
                  (p < q /\ mailboxes[c][p].instrument
                             = mailboxes[c][q].instrument) =>
                      mailboxes[c][p].data.seq <= mailboxes[c][q].data.seq
           /\ \A p \in DOMAIN mailboxes[c] :
                  /\ mailboxes[c][p].instrument \in DOMAIN market_data_cache
                  /\ mailboxes[c][p].data.seq
                       <= market_data_cache[mailboxes[c][p].instrument].seq

\* C7 witness: a mailbox holds two different snapshots of one instrument
C7_Witness ==
    \E c \in Clients :
        \E p, q \in DOMAIN mailboxes[c] :
            /\ p < q
            /\ mailboxes[c][p].instrument = mailboxes[c][q].instrument
            /\ mailboxes[c][p].data.seq < mailboxes[c][q].data.seq

\* C8: a subscribe_quote message whose ins_list is the empty string, sent by
\* a client the distributor holds subscriptions for, clears them: the session
\* empties its set and sends UpdateSubscription(c, {}) to the distributor,
\* without an error frame.
C8_EmptyInsListClearsAll ==
    (/\ ws_last.op = "subscribe_quote" /\ ws_last.arg = <<"">>
     /\ ws_last.client_id \in DOMAIN subscribers
     /\ subscribers[ws_last.client_id] # {}) =>
        /\ ws_subscriptions[ws_last.client_id] = {}
        /\ ws_last.update
        /\ dist_mailbox # <<>>
        /\ dist_mailbox[Len(dist_mailbox)].type = "UpdateSubscription"
        /\ dist_mailbox[Len(dist_mailbox)].instruments = <<>>
        /\ \A k \in DOMAIN ws_last.frames : ws_last.frames[k].frame # "error"

\* C9: once the distributor has handled the UpdateSubscription of a legacy
\* subscribe with instruments S, the client's set is its previous set
\* united with S.
C9_LegacySubscribeAdds ==
    (last_msg.type = "UpdateSubscription" /\ last_msg.via = "subscribe"
     /\ last_msg.client_id \in DOMAIN subscribers) =>
        subscribers[last_msg.client_id]
            = last_msg.before \cup SeqToSet(last_msg.instruments)

\* no message of session c waits in the distributor's mailbox
Settled(c) == \A k \in DOMAIN dist_mailbox : dist_mailbox[k].client_id # c

\* C10: the reply to peek_message and to the legacy subscriptions query
\* lists the set the distributor holds for the client once the session's
\* messages have been handled.
C10_PeekMatchesDistributor ==
    (/\ ws_last.op \in {"peek_message", "subscriptions"}
     /\ Settled(ws_last.client_id)
     /\ ws_last.client_id \in DOMAIN subscribers) =>
        (IF ws_last.op = "peek_message"
         THEN ws_last.frames[1].ins_list
         ELSE ws_last.frames[1].instruments) = subscribers[ws_last.client_id]

\* the frame is not JSON or carries an aid no handler knows
Unserved(text) == ~text.json \/ (text.aid # "" /\ text.aid \notin KnownAids)

FramesOf(frames, kind) == {k \in DOMAIN frames : frames[k].frame = kind}

C13_LegacyBeforePlatform ==
    /\ (ws_last.op = "market_data" /\ ws_last.subscribed) =>
           /\ Len(ws_last.frames) = 2
           /\ ws_last.frames[1].frame = "market_data"
           /\ ws_last.frames[2].frame = "rtn_data"
    /\ qq_last.type = "MarketDataUpdate" =>
           \A k \in DOMAIN qq_last.sent :
               qq_last.sent[k].frame
                 = IF k % 2 = 1 THEN "market_data" ELSE "rtn_data"

\* C14: the session pings once per HEARTBEAT_INTERVAL; a session is stopped
\* by the heartbeat only after more than CLIENT_TIMEOUT seconds without a
\* Ping, Pong or Text frame, so a client sending one at least every 30 s is
\* never dropped; and a session that stays silent is stopped at the first
\* tick after the timeout.
C14_HeartbeatDropsOnlyIdle ==
    /\ hb_state = "stopped" => gap_over
    /\ hb_state = "running" =>
           /\ now - last_frame <= CLIENT_TIMEOUT + HEARTBEAT_INTERVAL
           /\ pings = (next_tick \div HEARTBEAT_INTERVAL) - 1
           /\ now <= next_tick

\* C14 witness: a client whose frames were never more than 30 s apart is
\* still connected after 40 s, some of its frames being exactly 30 s apart
C14_Witness ==
    /\ hb_state = "running"
    /\ ~gap_over
    /\ now > CLIENT_TIMEOUT + HEARTBEAT_INTERVAL
    /\ now - last_frame = CLIENT_TIMEOUT
    /\ pings = 4

\* the messages of session c that wait in the distributor's mailbox
PendingOf(c) == SelectSeq(dist_mailbox, LAMBDA m : m.client_id = c)

\* C15: a session that stops, on any exit path, has sent Unregister for its
\* client id as its last message to the distributor, and once the
\* distributor has handled the session's messages the client's registration
\* is gone.
C15_StopAlwaysUnregisters ==
    /\ ws_last.op = "stopping" =>
           /\ dist_mailbox # <<>>
           /\ dist_mailbox[Len(dist_mailbox)]
                = [type |-> "Unregister", client_id |-> ws_last.client_id]
    /\ \A c \in Sessions :
           client_state[c] = "stopped" =>
               IF PendingOf(c) = <<>>
               THEN c \notin DOMAIN subscribers
               ELSE PendingOf(c)[Len(PendingOf(c))].type = "Unregister"

\* C15 witness: a session that had registered and subscribed has stopped and
\* the distributor has handled its Unregister
C15_Witness ==
    /\ last_msg.type = "Unregister"
    /\ last_msg.before # {}
    /\ client_state[last_msg.client_id] = "stopped"
    /\ PendingOf(last_msg.client_id) = <<>>

\* C16: the client ids of the connections that are connected at the same
\* time differ from one another, over any sequence of connects and
\* disconnects.
C16_ClientIdsUnique ==
    \A k1, k2 \in Connections :
        (k1 # k2 /\ md_conn[k1] = "connected" /\ md_conn[k2] = "connected") =>
            md_id[k1] # md_id[k2]

\* the Unsubscribe requests for instrument i among the requests the handled
\* message sent upstream
UnsubscribesOf(i) ==
    {k \in DOMAIN last_upstream :
        last_upstream[k].op = "Unsubscribe" /\ last_upstream[k].instrument = i}

\* the Subscribe requests for instrument i among them
SubscribesOf(i) ==
    {k \in DOMAIN last_upstream :
        last_upstream[k].op = "Subscribe" /\ last_upstream[k].instrument = i}

\* i is routed: its source is recorded and an adapter of that kind is
\* registered
Routed(i) == i \in DOMAIN source_map /\ source_map[i] \in md_actors

\* C17: when Unregister(c) has been handled, every instrument c held that no
\* registered client holds any more, and whose source adapter is known, has
\* had an Unsubscribe sent to that adapter by the handler.
C17_UnregisterUnsubscribesUpstream ==
    last_msg.type = "Unregister" =>
        \A i \in last_msg.before :
            ((\A c \in Clients : ~Holds(c, i)) /\ Routed(i)) =>
                \E k \in UnsubscribesOf(i) :
                    last_upstream[k].source = source_map[i]

\* C18: when UpdateSubscription(c, D) has been handled for a registered
\* client with an adapter registered, the handler has sent one Subscribe
\* for each instrument added to c's set and for no other, and one
\* Unsubscribe for each removed instrument whose subscriber set became
\* empty and for no other (none for an instrument another client still
\* subscribes to).
C18_UpdateRoutesUpstream ==
    (last_msg.type = "UpdateSubscription"
     /\ last_msg.client_id \in DOMAIN subscribers
     /\ md_actors # {}) =>
        LET D == SeqToSet(last_msg.instruments)
            added == D \ last_msg.before
            removed == last_msg.before \ D
        IN \A i \in Instruments :
               /\ Cardinality(SubscribesOf(i)) = IF i \in added THEN 1 ELSE 0
               /\ Cardinality(UnsubscribesOf(i))
                    = IF i \in removed /\ i \notin DOMAIN instrument_subscribers
                      THEN 1 ELSE 0

\* C19: when the adapter has logged in again after a front disconnection,
\* with no Subscribe or Unsubscribe message since the disconnection, and
\* the distributor has asked it to hold some instruments, the LoggedIn
\* handler has made exactly one native subscribe call, for exactly the
\* codes of those instruments (acknowledged or not).
C19_ReconnectResubscribesDesired ==
    (actor_last.op = "LoggedIn" /\ actor_last.after_disconnect
     /\ actor_last.quiet /\ desired # {}) =>
        actor_last.calls = <<{instrument_code(s) : s \in desired}>>

\* the distributor state the clients' requests act on: client sets,
\* instrument index, cache and source map
DistState(d) ==
    <<d.subscribers, d.instrument_subscribers, d.market_data_cache,
      d.source_map>>

\* Subscribe(S) then Unsubscribe(S) for client c, as two UpdateSubscription
\* messages: the first with c's set and S, the second with c's set alone
SubscribeThenUnsubscribe(d, c, S) ==
    LET current == d.subscribers[c]
        d1 == HandleUpdateSubscription(d, c, SetToSeq(current \cup S))
    IN HandleUpdateSubscription(d1, c, SetToSeq(current))

\* C20: in every state the distributor reaches, for a registered client c
\* and a non-empty set S of instruments c is not subscribed to, handling
\* Subscribe(S) and then Unsubscribe(S) for c gives back the client sets,
\* the instrument index, the cache and the source map of that state.
C20_SubscribeUnsubscribeRestores ==
    \A c \in DOMAIN subscribers, S \in (SUBSET Instruments) \ {{}} :
        S \cap subscribers[c] = {} =>
            DistState(SubscribeThenUnsubscribe(Dist, c, S)) = DistState(Dist)

\* C21: subscribing a client to instruments it is already subscribed to is
\* idempotent: the distributor's state stays as it was and no Subscribe goes
\* upstream to an adapter.
C21_DuplicateSubscribeIdempotent ==
    (cn_last.op = "Subscribe" /\ cn_last.instruments # {}
        /\ cn_last.instruments \subseteq cn_last.before)
    => /\ cn_held[cn_last.client] = cn_last.before
       /\ cn_last.to_adapters = {}

\* what try_send does with a message for client c
Accepts(c) ==
    client_state[c] # "stopped" /\ Len(mailboxes[c]) < MailboxCapacity

\* C22: delivery never blocks the distributor.  Whatever the mailboxes hold
\* when the distributor takes a snapshot of instrument i from its mailbox,
\* the handler runs to its end: the
\* cache holds the snapshot, a subscriber whose mailbox is full (or gone) is
\* skipped and its mailbox is left as it was, and every other subscriber
\* has the snapshot appended to its mailbox.
C22_FullOutboxDropsOnly ==
    Idle =>
        \A i \in Instruments, source \in md_actors :
            LET data == [instrument_id |-> i, seq |-> arrivals + 1]
                d == HandleMarketDataUpdate(Dist, data, source)
            IN  /\ d.market_data_cache[i] = data
                /\ \A c \in Clients :
                       d.mailboxes[c] =
                           IF Holds(c, i) /\ InIndex(c, i) /\ Accepts(c)
                           THEN Append(mailboxes[c],
                                       [instrument |-> i, data |-> data])
                           ELSE mailboxes[c]

\* C22 witness: a snapshot was just handled with two subscribers, one whose
\* full mailbox did not take it and one that received it
C22_Witness ==
    /\ last_msg.type = "MarketDataUpdate"
    /\ \E c1, c2 \in Clients :
          LET i == last_msg.data.instrument_id
              m == [instrument |-> i, data |-> last_msg.data]
          IN  /\ c1 # c2
              /\ Holds(c1, i) /\ InIndex(c1, i)
              /\ Holds(c2, i) /\ InIndex(c2, i)
              /\ Len(mailboxes[c1]) = MailboxCapacity
              /\ \A k \in DOMAIN mailboxes[c1] : mailboxes[c1][k] # m
              /\ mailboxes[c2] # <<>>
              /\ mailboxes[c2][Len(mailboxes[c2])] = m
              /\ market_data_cache[i] = last_msg.data

\* C23: normalisation strips the exchange prefix up to the first '.'; the
\* equity adapter pads a purely numeric code of at most 6 digits with zeros
\* to 6 characters, so X.Y and Y reach the native library as one id, in
\* subscribe and unsubscribe alike; the futures adapters strip the prefix
\* and do not pad.
C23_NormalisedInstrumentId ==
    nm_native # NoCall =>
        LET first_dot == CHOOSE k \in Dots(nm_id) : \A j \in Dots(nm_id) : k <= j
            stripped == IF Dots(nm_id) = {} THEN nm_id
                        ELSE SubSeq(nm_id, first_dot + 1, Len(nm_id))
        IN  /\ nm_native.code =
                   IF nm_adapter = "Sina" /\ all_numeric(stripped)
                      /\ Len(stripped) <= CodeWidth
                   THEN pad_left(stripped) ELSE stripped
            /\ native_code(nm_adapter, <<"a", ".">> \o nm_id) = nm_native.code

C25_SubscribesOnlyMissing ==
    (actor_last.op = "Subscribe" /\ actor_last.logged_in) =>
        Called(actor_last.calls) =
            {instrument_code(s) : s \in actor_last.instruments}
                \ subscribed_instruments

\* C26: the subscribed set changes on acknowledgements of the native
\* library only: a successful sub-ack of a code adds that code, a
\* successful unsub-ack removes it, a failed sub-ack emits the
\* subscription-failure event of that code and adds nothing, and handling
\* Subscribe or Unsubscribe leaves the set as it was.
C26_SubscribedChangesOnAcksOnly ==
    [][/\ subscribed_instruments' # subscribed_instruments =>
              /\ actor_last'.op \in {"RspSub", "RspUnSub"}
              /\ actor_last'.ok
       /\ (actor_last'.op = "RspSub" /\ actor_last'.ok) =>
              subscribed_instruments' =
                  subscribed_instruments \cup {actor_last'.code}
       /\ (actor_last'.op = "RspUnSub" /\ actor_last'.ok) =>
              subscribed_instruments' =
                  subscribed_instruments \ {actor_last'.code}
       /\ (actor_last'.op = "RspSub" /\ ~actor_last'.ok) =>
              /\ actor_last'.event =
                     MarketDataEvent("SubscriptionFailure", actor_last'.code)
              /\ subscribed_instruments' = subscribed_instruments
       /\ actor_last'.op \in {"Subscribe", "Unsubscribe"} =>
              subscribed_instruments' = subscribed_instruments]_vars

\* C26 witness: the front has refused a subscribe request the adapter made
\* for an instrument, which is not in the subscribed set
C26_Witness ==
    /\ actor_last.op = "RspSub"
    /\ ~actor_last.ok
    /\ actor_last.code \in {instrument_code(s) : s \in desired}
    /\ actor_last.code \notin subscribed_instruments
    /\ actor_last.event.kind = "SubscriptionFailure"

\* C27: a callback of the native library only enqueues a message for the
\* actor: nothing of the adapter's state, the subscribed set included, is
\* written on the callback thread.
C27_CallbacksOnlyEnqueue ==
    [][actor_last'.thread = "spi" =>
           UNCHANGED <<md_api, is_connected, is_logged_in,
                       subscribed_instruments>>]_vars

\* C28: a rejected login emits an Error event and leaves the adapter
\* connected and not logged in, and the next heartbeat tick of a connected
\* adapter that is not logged in and has no login request under way sends
\* a login request.
C28_LoginRetriedOnHeartbeat ==
    /\ actor_last.op = "Error" =>
           /\ actor_last.event.kind = "Error"
           /\ is_connected /\ ~is_logged_in
    /\ (actor_last.op = "Heartbeat" /\ actor_last.connected
        /\ ~actor_last.logged_in /\ ~actor_last.pending) => login_sent

\* C29: on each 30 s reconciliation the connector takes the set A of all
\* subscribed instruments from the distributor and asks every adapter it
\* manages, the futures sources and the registered QQ and Sina sources; an
\* asked adapter is sent Subscribe for exactly A minus its subscriptions
\* and Unsubscribe for exactly its subscriptions minus A.
C29_ReconcilesEveryAdapter ==
    /\ cn_last.op = "Sync" =>
           /\ cn_last.instruments = cn_active(cn_held)
           /\ cn_last.asked = Managed
    /\ cn_last.op = "GetSubscriptions:sync" =>
           LET b == cn_last.client
               A == cn_last.instruments
           IN  cn_last.to_adapters =
                   (IF A \ cn_subs[b] # {}
                    THEN {ToAdapter(b, "Subscribe", A \ cn_subs[b])}
                    ELSE {})
                   \cup (IF cn_subs[b] \ A # {}
                         THEN {ToAdapter(b, "Unsubscribe", cn_subs[b] \ A)}
                         ELSE {})

\* C30: the connector handling a Subscribe or Unsubscribe of a session
\* (for the futures, the QQ or the Sina feed) forwards it to the
\* distributor and sends nothing to an adapter itself.
C30_ConnectorForwardsToDistributorOnly ==
    cn_last.op \in {"Subscribe", "Unsubscribe", "SubscribeQQ", "SubscribeSina",
                    "UnsubscribeQQ", "UnsubscribeSina"} =>
        /\ cn_last.to_adapters = {}
        /\ cn_last.asked = {}

C32_GetAllIsCurrentDemand ==
    HandleGetAllSubscriptions(Dist) =
        {i \in Instruments : \E c \in DOMAIN subscribers : i \in subscribers[c]}

\* C33: for a registered client c and an instrument i, AddSubscription(c, i)
\* has the effect of UpdateSubscription(c, c's set plus i) and
\* RemoveSubscription(c, i) that of UpdateSubscription(c, c's set minus i):
\* the same maps, the same snapshots sent and the same Subscribe and
\* Unsubscribe sent to the adapters.
C33_GranularFormsOfUpdate ==
    Idle =>
        \A c \in DOMAIN subscribers, i \in Instruments :
            /\ HandleAddSubscription(Dist, c, i) =
                   HandleUpdateSubscription(
                       Dist, c, SetToSeq(subscribers[c] \cup {i}))
            /\ HandleRemoveSubscription(Dist, c, i) =
                   HandleUpdateSubscription(
                       Dist, c, SetToSeq(subscribers[c] \ {i}))

\* the client registry and the instrument index of the unified distributor
Registry(d) == <<d.subscribers, d.instrument_subscribers>>

\* C34: in both distributors, a subscription message that names a client id
\* which is not registered (UpdateSubscription, AddSubscription,
\* RemoveSubscription, Unregister) leaves the client registry and the
\* instrument index as they were.
C34_UnknownClientLeavesIndex ==
    Idle =>
        \A c \in Clients, i \in Instruments :
            /\ c \notin DOMAIN subscribers =>
                   /\ \A instruments \in InstrumentLists :
                          Registry(HandleUpdateSubscription(Dist, c, instruments))
                              = Registry(Dist)
                   /\ Registry(HandleAddSubscription(Dist, c, i)) = Registry(Dist)
                   /\ Registry(HandleRemoveSubscription(Dist, c, i))
                          = Registry(Dist)
                   /\ Registry(HandleUnregisterDataReceiver(Dist, c))
                          = Registry(Dist)
            /\ driver = "qq" /\ c \notin clients =>
                   /\ qq_add_subscription(subscriptions, c, i) = subscriptions
                   /\ qq_remove_subscription(subscriptions, c, i) = subscriptions

\* C35: whatever the connector has just handled (an unsubscribe of a session
\* on the futures, the QQ or the Sina path, or the answer of an adapter to
\* GetSubscriptions), no Unsubscribe it sends to an adapter names an
\* instrument that a client still holds.
C35_UnsubscribeSparesOtherClients ==
    cn_last.op # "None" =>
        \A m \in cn_last.to_adapters :
            m.msg = "Unsubscribe" =>
                \A i \in m.instruments, c \in Clients : i \notin cn_held[c]

\* C36: in the futures gateway's adapter, unsubscribe(x) hands the native
\* library the id that subscribe(x) hands it.
C36_UnsubscribeStripsLikeSubscribe ==
    nm_adapter = "CTP" /\ nm_native # NoCall /\ nm_native.op = "unsubscribe" =>
        nm_native.code = native_code("CTP", nm_id)

\* C37: when the clients' whole demand has been acknowledged by the
\* logged-in futures adapter and does not change, the periodic
\* reconciliation sends that adapter neither Subscribe nor Unsubscribe,
\* whether or not the demanded id carries an exchange prefix.
C37_ReconciliationQuiescent ==
    nm_sync # NoCall /\ nm_sync.acknowledged => nm_sync.sent = {}

\* C38: an MDSession whose client has sent no frame for longer than the
\* client timeout does not outlive the next heartbeat tick, whatever market
\* data is pushed to it meanwhile: while the session runs, the client's last
\* frame is at most the timeout and one interval old.
C38_SilentClientDropped ==
    hb_state = "running" =>
        now - last_frame <= MD_CLIENT_TIMEOUT + MD_HEARTBEAT_INTERVAL

\* the native library has been asked for the instrument: the request is
\* in flight or acknowledged
Requested(s) == instrument_code(s) \in sub_requests \cup subscribed_instruments

\* C39: an instrument the distributor has asked the adapter for is, while
\* the adapter is logged in and the instrument stays demanded, eventually
\* requested from the native library, also when its Subscribe was refused
\* with "Not logged in".
C39_RefusedSubscribeRecovered ==
    \A s \in AdapterInstruments :
        (s \in desired /\ is_logged_in)
            ~> (Requested(s) \/ ~is_logged_in \/ s \notin desired)

\* the reconciliation has just made the native request for an instrument
\* whose Subscribe had been refused before the login
C39_Witness ==
    /\ actor_last.op = "Reconcile"
    /\ \E s \in actor_last.refused :
           /\ s \in desired
           /\ instrument_code(s) \in Called(actor_last.calls)
           /\ Requested(s)
    /\ is_logged_in

\* C40: in the unified distributor every market-data message a handler
\* sends goes to a client that is registered: a client whose Unregister
\* has been handled is sent nothing, whatever snapshot arrives and
\* whatever it was subscribed to.
C40_NothingSentAfterUnregister ==
    driver = "api" =>
        \A k \in DOMAIN last_sent :
            client_state[last_sent[k].client] = "started"

\* a snapshot has arrived for an instrument the departed client was
\* subscribed to, and a client that is still registered was sent it
C40_Witness ==
    /\ driver = "api"
    /\ last_msg.type = "MarketDataUpdate"
    /\ last_sent # <<>>
    /\ \E c \in Clients :
           /\ client_state[c] = "stopped"
           /\ InIndex(c, last_msg.data.instrument_id)

====
